---- MODULE Spec2Model ----
(***************************************************************************)
(* Model of the SEO audit pipeline: extraction of the signal bundles,      *)
(* issue derivation, scoring, and the heuristic deep analysis.             *)
(*                                                                         *)
(* Strings are modelled by their length: a nullable string is <<>> (null)  *)
(* or <<n>> (a string of n characters).  Times are in half milliseconds,   *)
(* so that Math.round of a fractional load time is a real conversion.      *)
(***************************************************************************)
EXTENDS Integers, Sequences, FiniteSets, TLC

VARIABLES
    pc,              \* position of the run: which step completed last
    page,            \* the loaded page as the browser reports it
    seo,             \* SEOAnalysis bundle
    technical,       \* TechnicalAnalysis bundle
    content,         \* ContentAnalysis bundle
    performance,     \* PerformanceAnalysis bundle
    issues,          \* Issue[] produced by the deriver (or handed to the scorer)
    recommendations, \* Recommendation[]
    categories,      \* the four CategoryScores
    overallScore,    \* overall score
    llmAnalysis,     \* LLMAnalysisResult of the heuristic generator
    llm,             \* the LLMService instance and its request in flight
    browserInstance, \* the module-level browser handle of the audit module
    browsers,        \* the browsers launched so far
    contexts,        \* the browsing contexts created so far
    pages,           \* the pages created so far
    audit,           \* the locals of each runAudit call
    audits           \* InMemoryAuditStorage.audits

vars == <<pc, page, seo, technical, content, performance, issues,
          recommendations, categories, overallScore, llmAnalysis,
          llm, browserInstance, browsers, contexts, pages, audit, audits>>

\* the state of the service and of the concurrent audits
serviceVars == <<llm, browserInstance, browsers, contexts, pages, audit, audits>>

(***************************************************************************)
(* Bounds                                                                  *)
(***************************************************************************)
MaxIssues == 6            \* longest issue list handed to the scorer
MaxH1 == 2                \* most H1 headings on a page
MaxImages == 2            \* most images missing alt on an audited page
MaxLinks == 1             \* most empty-text links on an audited page
MaxWithoutAlt == 6        \* most images missing alt in an AuditResult given to the heuristic generator
MaxPlaceholderLinks == 10 \* most placeholder links in an AuditResult given to the heuristic generator
NumAudits == 2            \* runAudit calls in flight at once
MaxRequests == 1          \* most network requests held in the arrays of the audits at once
MaxCalls == 3             \* longest sequence of saveAudit and deleteAudit calls on one storage

(***************************************************************************)
(* Values                                                                  *)
(***************************************************************************)
Null == <<>>
Str(n) == <<n>>
Falsy(s) == s = Null \/ s = Str(0)
Truthy(s) == ~Falsy(s)
StrLen(s) == s[1]

Pending == [pending |-> TRUE]

\* no LLMService call and no audit in progress
ServiceIdle ==
    /\ llm = Pending
    /\ browserInstance = 0
    /\ browsers = <<>>
    /\ contexts = <<>>
    /\ pages = <<>>
    /\ audit = <<>>
    /\ audits = <<>>

Max(a, b) == IF a >= b THEN a ELSE b
Min(a, b) == IF a <= b THEN a ELSE b

\* Math.round(num / den) for den > 0: nearest integer, halves towards +infinity
MathRoundTrunc(num, den) == num \div den
MathRound(num, den) == (2 * num + den) \div (2 * den)

Categories == {"seo", "technical", "content", "performance"}
Impacts == {"high", "medium", "low"}

Issue(id, type, category, impact, description) ==
    [id |-> id, type |-> type, category |-> category, impact |-> impact,
     description |-> description]

RECURSIVE SeqsUpTo(_, _)
SeqsUpTo(S, n) ==
    IF n = 0 THEN {<<>>}
    ELSE LET shorter == SeqsUpTo(S, n - 1)
         IN  shorter \cup {Append(s, x) : s \in {t \in shorter : Len(t) = n - 1}, x \in S}

\* Array.prototype.push
unshift(list, item) == <<item>> \o list
push(list, item) == Append(list, item)

(***************************************************************************)
(* Scoring engine                                                          *)
(***************************************************************************)
penaltyFlat(impact) == IF impact = "high" THEN 20 ELSE 10
penalty(impact) ==
    IF impact = "high" THEN 20 ELSE IF impact = "medium" THEN 10 ELSE 5

NewCategories ==
    [c \in Categories |-> [score |-> 100, maxScore |-> 100, issues |-> <<>>]]

\* one iteration of the forEach of calculateCategoryScores
scoreIssueUnclamped(cats, issue) ==
    [cats EXCEPT ![issue.category] =
        [score    |-> @.score - penalty(issue.impact),
         maxScore |-> @.maxScore,
         issues   |-> push(@.issues, issue)]]

scoreIssue(cats, issue) ==
    [cats EXCEPT ![issue.category] =
        [score    |-> Max(0, @.score - penalty(issue.impact)),
         maxScore |-> @.maxScore,
         issues   |-> push(@.issues, issue)]]

RECURSIVE forEachIssue(_, _)
forEachIssue(cats, list) ==
    IF list = <<>> THEN cats
    ELSE forEachIssue(scoreIssue(cats, Head(list)), Tail(list))

calculateCategoryScores(list) == forEachIssue(NewCategories, list)

calculateOverallScore(cats) ==
    LET totalScore == cats["seo"].score + cats["technical"].score
                      + cats["content"].score + cats["performance"].score
    IN  MathRound(totalScore, Cardinality(DOMAIN cats))

CalculateCategoryScores ==
    /\ pc = "derived"
    /\ categories' = calculateCategoryScores(issues)
    /\ pc' = "scored"
    /\ UNCHANGED serviceVars
    /\ UNCHANGED <<page, seo, technical, content, performance, issues,
                   recommendations, overallScore, llmAnalysis>>

CalculateOverallScore ==
    /\ pc = "scored"
    /\ overallScore' = calculateOverallScore(categories)
    /\ pc' = "done"
    /\ UNCHANGED serviceVars
    /\ UNCHANGED <<page, seo, technical, content, performance, issues,
                   recommendations, categories, llmAnalysis>>

(***************************************************************************)
(* Scoring of arbitrary issue lists                                        *)
(***************************************************************************)
IssueKinds ==
    { Issue("meta-description", "error", "seo", "high", <<>>),
      Issue("title-length", "warning", "seo", "medium", <<>>),
      Issue("note", "info", "seo", "low", <<>>),
      Issue("no-ssl", "error", "technical", "high", <<>>),
      Issue("empty-links", "warning", "content", "medium", <<>>),
      Issue("hint", "info", "performance", "low", <<>>) }

InitScoring ==
    /\ pc = "derived"
    /\ issues \in SeqsUpTo(IssueKinds, MaxIssues)
    /\ page = Pending /\ seo = Pending /\ technical = Pending
    /\ content = Pending /\ performance = Pending
    /\ recommendations = <<>>
    /\ categories = Pending
    /\ overallScore = 0
    /\ llmAnalysis = Pending
    /\ ServiceIdle

NextScoring == CalculateCategoryScores \/ CalculateOverallScore

SpecScoring == InitScoring /\ [][NextScoring]_vars

\* C1: every category ends with score = max(0, 100 - sum of the penalties of
\* its issues), with penalty 20 for high, 10 for medium and 5 for low impact.
CountIn(list, c, i) ==
    Cardinality({k \in DOMAIN list : list[k].category = c /\ list[k].impact = i})
C1_CategoryScoreFormula ==
    pc \in {"scored", "done"} =>
        \A c \in Categories :
            categories[c].score =
                Max(0, 100 - (20 * CountIn(issues, c, "high")
                              + 10 * CountIn(issues, c, "medium")
                              + 5 * CountIn(issues, c, "low")))

\* a category whose penalties exceed 100 and whose score sits on the floor
C1_Witness ==
    /\ pc = "scored"
    /\ \E c \in Categories :
          /\ 20 * CountIn(issues, c, "high") + 10 * CountIn(issues, c, "medium")
               + 5 * CountIn(issues, c, "low") > 100
          /\ categories[c].score = 0
          /\ CountIn(issues, c, "low") > 0

(***************************************************************************)
(* Overall score of arbitrary category scores                              *)
(***************************************************************************)
ScoreSamples == {s \in 0..100 : s % 5 = 0 \/ s <= 3 \/ s >= 97}

InitOverall ==
    /\ pc = "scored"
    /\ \E a \in ScoreSamples, b \in ScoreSamples, c \in ScoreSamples, d \in ScoreSamples :
          categories =
              [k \in Categories |->
                  [score    |-> CASE k = "seo" -> a [] k = "technical" -> b
                                  [] k = "content" -> c [] OTHER -> d,
                   maxScore |-> 100,
                   issues   |-> <<>>]]
    /\ issues = <<>>
    /\ page = Pending /\ seo = Pending /\ technical = Pending
    /\ content = Pending /\ performance = Pending
    /\ recommendations = <<>>
    /\ overallScore = 0
    /\ llmAnalysis = Pending
    /\ ServiceIdle

NextOverall == CalculateOverallScore

SpecOverall == InitOverall /\ [][NextOverall]_vars

TotalOf(cats) ==
    cats["seo"].score + cats["technical"].score + cats["content"].score
    + cats["performance"].score

\* C2: the overall score is the mean of the four category scores rounded to
\* the nearest integer, halves rounded up, and is an integer in 0..100.
C2_OverallScoreRounded ==
    pc = "done" =>
        /\ overallScore \in 0..100
        /\ 4 * overallScore - TotalOf(categories) \in {-1, 0, 1, 2}

\* a mean that ends in .5 and was rounded up
C2_Witness ==
    /\ pc = "done"
    /\ TotalOf(categories) % 4 = 2
    /\ 4 * overallScore = TotalOf(categories) + 2

(***************************************************************************)
(* Extraction collector: the signal bundles read off the loaded page       *)
(***************************************************************************)
inRangeExclusive(n, lo, hi) == n > lo /\ n < hi
inRange(n, lo, hi) == n >= lo /\ n <= hi

\* page.url().startsWith('https://'); a URL is modelled by its scheme
startsWithHttp(url) == url \in {"http", "https"}
startsWithHttps(url) == url = "https"

analyzeSEO(p) ==
    [title |->
        [content   |-> Str(p.title),
         length    |-> p.title,
         isOptimal |-> inRange(p.title, 30, 60)],
     metaDescription |->
        [content   |-> p.metaDescription,
         length    |-> IF Truthy(p.metaDescription)
                       THEN StrLen(p.metaDescription) ELSE 0,
         isOptimal |-> IF Truthy(p.metaDescription)
                       THEN inRange(StrLen(p.metaDescription), 120, 160)
                       ELSE FALSE],
     viewport  |-> p.viewportContent,
     canonical |-> p.canonical,
     openGraph |-> [title |-> p.ogTitle],
     headingStructure |-> [h1 |-> p.h1]]

analyzeTechnical(p) ==
    [loadTime |-> p.loadTime,
     mobileOptimization |->
        [hasViewport |-> p.hasViewportElement,
         isResponsive |-> p.hasViewportElement,
         touchTargetSize |-> TRUE],
     accessibility |-> [score |-> 85],
     security |-> [hasSSL |-> startsWithHttps(p.url), mixedContent |-> FALSE]]

analyzeContent(p) ==
    [wordCount |-> p.wordCount,
     readabilityScore |-> 75,
     images |-> [withoutAlt |-> p.imagesWithoutAlt],
     links  |-> [empty |-> p.emptyLinks]]

analyzePerformance(p) ==
    [overallScore |-> 85,
     metrics |-> [speedIndex |-> p.loadTime]]

AnalyzeSEO ==
    /\ pc = "navigated"
    /\ seo' = analyzeSEO(page)
    /\ pc' = "seo"
    /\ UNCHANGED serviceVars
    /\ UNCHANGED <<page, technical, content, performance, issues,
                   recommendations, categories, overallScore, llmAnalysis>>

AnalyzeTechnical ==
    /\ pc = "seo"
    /\ technical' = analyzeTechnical(page)
    /\ pc' = "technical"
    /\ UNCHANGED serviceVars
    /\ UNCHANGED <<page, seo, content, performance, issues,
                   recommendations, categories, overallScore, llmAnalysis>>

AnalyzeContent ==
    /\ pc = "technical"
    /\ content' = analyzeContent(page)
    /\ pc' = "content"
    /\ UNCHANGED serviceVars
    /\ UNCHANGED <<page, seo, technical, performance, issues,
                   recommendations, categories, overallScore, llmAnalysis>>

AnalyzePerformance ==
    /\ pc = "content"
    /\ performance' = analyzePerformance(page)
    /\ pc' = "performance"
    /\ UNCHANGED serviceVars
    /\ UNCHANGED <<page, seo, technical, content, issues,
                   recommendations, categories, overallScore, llmAnalysis>>

(***************************************************************************)
(* Issue and recommendation deriver                                        *)
(***************************************************************************)
\* the conditions of the nine rules, in source order
titleNotOptimal(s) == ~s.title.isOptimal
metaDescriptionNotOptimal(s) == ~s.metaDescription.isOptimal
notSingleH1(s) == Len(s.headingStructure.h1) # 1
missingH1(s) == Len(s.headingStructure.h1) = 0
multipleH1FromOne(s) == Len(s.headingStructure.h1) >= 1
multipleH1(s) == Len(s.headingStructure.h1) > 1
imagesWithoutAlt(c) == c.images.withoutAlt > 0
emptyLinks(c) == c.links.empty > 0
noSSL(t) == ~t.security.hasSSL
noViewport(t) == ~t.mobileOptimization.hasViewport
slowLoading(t) == t.loadTime > 2 * 3000

pushIf(list, cond, item) == IF cond THEN push(list, item) ELSE list

deriveIssues(s, t, c, perf) ==
    LET i0 == <<>>
        i1 == pushIf(i0, titleNotOptimal(s),
                Issue("title-length", "warning", "seo", "medium",
                      <<"characters", s.title.length>>))
        i2 == pushIf(i1, metaDescriptionNotOptimal(s),
                Issue("meta-description", "error", "seo", "high",
                      IF Truthy(s.metaDescription.content)
                      THEN <<"characters", s.metaDescription.length>>
                      ELSE <<"missing">>))
        i3 == pushIf(i2, missingH1(s),
                Issue("missing-h1", "error", "seo", "high", <<>>))
        i4 == pushIf(i3, multipleH1(s),
                Issue("multiple-h1", "warning", "seo", "medium",
                      <<"h1 tags", Len(s.headingStructure.h1)>>))
        i5 == pushIf(i4, imagesWithoutAlt(c),
                Issue("images-without-alt", "warning", "content", "medium",
                      <<"images", c.images.withoutAlt>>))
        i6 == pushIf(i5, emptyLinks(c),
                Issue("empty-links", "warning", "content", "medium",
                      <<"links", c.links.empty>>))
        i7 == pushIf(i6, noSSL(t),
                Issue("no-ssl", "error", "technical", "high", <<>>))
        i8 == pushIf(i7, noViewport(t),
                Issue("no-viewport", "error", "technical", "high", <<>>))
        i9 == pushIf(i8, slowLoading(t),
                Issue("slow-loading", "warning", "performance", "medium",
                      <<"ms", MathRound(t.loadTime, 2)>>))
    IN  i9

SeoOptimization ==
    [id |-> "seo-optimization", title |-> "SEO Optimization",
     priority |-> "high", category |-> "seo",
     actionItems |-> <<"Optimize title tag length",
                       "Add or improve meta description",
                       "Ensure single H1 tag per page",
                       "Add Open Graph tags">>,
     estimatedImpact |-> "high"]

TechnicalImprovements ==
    [id |-> "technical-improvements", title |-> "Technical Improvements",
     priority |-> "medium", category |-> "technical",
     actionItems |-> <<"Implement HTTPS if not already",
                       "Add viewport meta tag",
                       "Optimize mobile experience",
                       "Fix broken links">>,
     estimatedImpact |-> "medium"]

\* the two unconditional pushes; the issue list built so far is not consulted
deriveRecommendationsForIssues(issueList) ==
    LET r1 == pushIf(<<>>, \E k \in DOMAIN issueList : issueList[k].category = "seo",
                     SeoOptimization)
    IN  pushIf(r1, \E k \in DOMAIN issueList : issueList[k].category = "technical",
               TechnicalImprovements)
deriveRecommendations(issueList) ==
    push(push(<<>>, SeoOptimization), TechnicalImprovements)

analyzeIssuesAndRecommendations(s, t, c, perf) ==
    LET derived == deriveIssues(s, t, c, perf)
    IN  [issues |-> derived, recommendations |-> deriveRecommendations(derived)]

AnalyzeIssuesAndRecommendations ==
    /\ pc = "performance"
    /\ LET result == analyzeIssuesAndRecommendations(seo, technical, content, performance)
       IN  /\ issues' = result.issues
           /\ recommendations' = result.recommendations
    /\ pc' = "derived"
    /\ UNCHANGED serviceVars
    /\ UNCHANGED <<page, seo, technical, content, performance,
                   categories, overallScore, llmAnalysis>>

(***************************************************************************)
(* One audit of one page                                                   *)
(***************************************************************************)
TitleLengths == {29, 30, 45, 60, 61}
DescriptionValues == {Null, Str(0), Str(119), Str(120), Str(140), Str(160), Str(161)}
LoadTimes == {2 * 800, 2 * 3000, 2 * 3000 + 1, 2 * 5000}
Headings(n) == [k \in 1..n |-> "h1"]

AuditedPages ==
    [title              : TitleLengths,
     metaDescription    : DescriptionValues,
     hasViewportElement : BOOLEAN,
     viewportContent    : {Null, Str(35)},
     canonical          : {Null, Str(27)},
     ogTitle            : {Null, Str(12)},
     h1                 : {Headings(n) : n \in 0..MaxH1},
     imagesWithoutAlt   : 0..MaxImages,
     emptyLinks         : 0..MaxLinks,
     url                : {"http", "https"},
     loadTime           : LoadTimes,
     wordCount          : {250}]

InitAudit ==
    /\ pc = "navigated"
    /\ page \in {p \in AuditedPages : ~p.hasViewportElement => p.viewportContent = Null}
    /\ seo = Pending /\ technical = Pending
    /\ content = Pending /\ performance = Pending
    /\ issues = <<>>
    /\ recommendations = <<>>
    /\ categories = Pending
    /\ overallScore = 0
    /\ llmAnalysis = Pending
    /\ ServiceIdle

NextAudit ==
    \/ AnalyzeSEO
    \/ AnalyzeTechnical
    \/ AnalyzeContent
    \/ AnalyzePerformance
    \/ AnalyzeIssuesAndRecommendations
    \/ CalculateCategoryScores
    \/ CalculateOverallScore

SpecAudit == InitAudit /\ [][NextAudit]_vars

(***************************************************************************)
(* Properties of the deriver and of one audit                              *)
(***************************************************************************)
Derived == pc \in {"derived", "scored", "done"}
IssueIds == [k \in DOMAIN issues |-> issues[k].id]
HasIssue(id) == \E k \in DOMAIN issues : issues[k].id = id

RuleOrder ==
    <<"title-length", "meta-description", "missing-h1", "multiple-h1",
      "images-without-alt", "empty-links", "no-ssl", "no-viewport",
      "slow-loading">>

RuleHolds(id) ==
    CASE id = "title-length"       -> ~seo.title.isOptimal
      [] id = "meta-description"   -> \/ ~seo.metaDescription.isOptimal
                                      \/ Falsy(seo.metaDescription.content)
      [] id = "missing-h1"         -> Len(seo.headingStructure.h1) = 0
      [] id = "multiple-h1"        -> Len(seo.headingStructure.h1) > 1
      [] id = "images-without-alt" -> content.images.withoutAlt > 0
      [] id = "empty-links"        -> content.links.empty > 0
      [] id = "no-ssl"             -> ~technical.security.hasSSL
      [] id = "no-viewport"        -> ~technical.mobileOptimization.hasViewport
      [] id = "slow-loading"       -> technical.loadTime > 6000

RuleType(id) ==
    IF id \in {"meta-description", "missing-h1", "no-ssl", "no-viewport"}
    THEN "error" ELSE "warning"

RuleCategory(id) ==
    CASE id \in {"title-length", "meta-description", "missing-h1", "multiple-h1"} -> "seo"
      [] id \in {"images-without-alt", "empty-links"} -> "content"
      [] id \in {"no-ssl", "no-viewport"} -> "technical"
      [] id = "slow-loading" -> "performance"

\* C3: the issue list is exactly the rules whose predicate holds, in the fixed
\* rule order, each with its severity and category.
C3_IssuesAreFiredRulesInOrder ==
    Derived =>
        /\ IssueIds = SelectSeq(RuleOrder, RuleHolds)
        /\ \A k \in DOMAIN issues :
              /\ issues[k].type = RuleType(issues[k].id)
              /\ issues[k].category = RuleCategory(issues[k].id)

\* eight of the nine rules fired at once (the two H1 rules exclude each other)
C3_Witness == pc = "derived" /\ Len(issues) = 8 /\ HasIssue("multiple-h1")

\* C4: the recommendations are always the SEO optimization bundle followed by
\* the technical improvement bundle, whichever issues fired.
C4_RecommendationsFixed ==
    Derived =>
        /\ Len(recommendations) = 2
        /\ recommendations[1].id = "seo-optimization"
        /\ recommendations[1].priority = "high"
        /\ recommendations[1].category = "seo"
        /\ Len(recommendations[1].actionItems) = 4
        /\ recommendations[2].id = "technical-improvements"
        /\ recommendations[2].priority = "medium"
        /\ recommendations[2].category = "technical"
        /\ Len(recommendations[2].actionItems) = 4

\* the deriver ran and no issue fired
C4_Witness == pc = "derived" /\ issues = <<>> /\ Len(recommendations) = 2

SeoAnalyzed == pc # "navigated"

\* C6: the title is optimal exactly for lengths 30..60 and the meta
\* description exactly when present with length 120..160.
C6_OptimalityFlags ==
    SeoAnalyzed =>
        /\ seo.title.isOptimal <=> page.title \in 30..60
        /\ page.title \in {30, 60} => seo.title.isOptimal
        /\ page.title \in {29, 61} => ~seo.title.isOptimal
        /\ seo.metaDescription.isOptimal <=>
              /\ page.metaDescription # Null
              /\ StrLen(page.metaDescription) \in 120..160
        /\ page.metaDescription \in {Str(120), Str(160)} => seo.metaDescription.isOptimal
        /\ page.metaDescription \in {Null, Str(119), Str(161)} => ~seo.metaDescription.isOptimal

\* both lengths on their upper boundary and flagged optimal
C6_Witness ==
    /\ pc = "seo"
    /\ page.title = 60 /\ seo.title.isOptimal
    /\ page.metaDescription = Str(160) /\ seo.metaDescription.isOptimal

GoodPage ==
    /\ page.title = 45
    /\ page.metaDescription = Str(140)
    /\ Len(page.h1) = 1
    /\ Truthy(page.ogTitle)
    /\ page.url = "https"
    /\ page.loadTime = 2 * 800

\* C7 as stated: the six listed properties alone give zero issues and 100.
C7_GoodPageScores100 ==
    (pc = "done" /\ GoodPage) => (issues = <<>> /\ overallScore = 100)

\* C7 amended: a page with the six listed properties that also has a viewport
\* meta tag, no image missing alt and no empty-text link yields zero issues
\* and an overall score of 100.
C7_CleanGoodPageScores100 ==
    (/\ pc = "done"
     /\ GoodPage
     /\ page.hasViewportElement
     /\ page.imagesWithoutAlt = 0
     /\ page.emptyLinks = 0) => (issues = <<>> /\ overallScore = 100)

C7_Witness ==
    /\ pc = "done"
    /\ GoodPage
    /\ page.hasViewportElement
    /\ page.imagesWithoutAlt = 0
    /\ page.emptyLinks = 0
    /\ overallScore = 100

BarePage ==
    /\ page.metaDescription = Null
    /\ ~page.hasViewportElement
    /\ page.viewportContent = Null
    /\ page.ogTitle = Null
    /\ Len(page.h1) = 0
    /\ page.url = "http"
    /\ page.loadTime = 2 * 5000

\* C8: a page with no meta tags, no H1, no SSL and load time 5000 ms yields at
\* least the four issues meta description, missing H1, no SSL and slow load,
\* seo and technical scores below 100 and an overall score below 100.
C8_BarePageScoresBelow100 ==
    (pc = "done" /\ BarePage) =>
        /\ Len(issues) >= 4
        /\ HasIssue("meta-description")
        /\ HasIssue("missing-h1")
        /\ HasIssue("no-ssl")
        /\ HasIssue("slow-loading")
        /\ categories["seo"].score < 100
        /\ categories["technical"].score < 100
        /\ overallScore < 100

C8_Witness ==
    pc = "done" /\ BarePage /\ HasIssue("slow-loading") /\ overallScore < 100

Scored == pc \in {"scored", "done"}

\* C29: in every audit the missing-h1 and multiple-h1 issues never both occur
\* and no issue id occurs twice, so the seo score is at least 50, the
\* technical score at least 60, the content score at least 80, the
\* performance score at least 90 and the overall score at least 70; no
\* category score reaches the floor of 0.
C29_ScoreFloors ==
    /\ Derived =>
          /\ ~(HasIssue("missing-h1") /\ HasIssue("multiple-h1"))
          /\ \A j, k \in DOMAIN issues : issues[j].id = issues[k].id => j = k
    /\ Scored =>
          /\ categories["seo"].score >= 50
          /\ categories["technical"].score >= 60
          /\ categories["content"].score >= 80
          /\ categories["performance"].score >= 90
          /\ \A c \in Categories : categories[c].score > 0
    /\ pc = "done" => overallScore >= 70

C29_Witness ==
    /\ pc = "done"
    /\ categories["seo"].score = 50
    /\ categories["technical"].score = 60
    /\ categories["content"].score = 80
    /\ categories["performance"].score = 90
    /\ overallScore = 70
    /\ Len(issues) = 8

(***************************************************************************)
(* Heuristic deep analysis: the LLMService with the full rule tables       *)
(***************************************************************************)
\* an AuditResult as the generator reads it
AuditResult ==
    [seo |-> seo, technical |-> technical, content |-> content,
     performance |-> performance, issues |-> issues,
     recommendations |-> recommendations, categories |-> categories,
     overallScore |-> overallScore]

DetailedIssue(id, description, businessImpact, codeExample) ==
    [id |-> id, description |-> description,
     businessImpact |-> businessImpact, codeExample |-> codeExample]

\* auditResult.content.placeholderLinks && auditResult.content.placeholderLinks.length > 0
hasPlaceholderLinks(ar) ==
    /\ "placeholderLinks" \in DOMAIN ar.content
    /\ Len(ar.content.placeholderLinks) > 0

\* truthiness of the optional auditResult.content.hasSuspiciousTestimonials
hasSuspiciousTestimonials(ar) ==
    /\ "hasSuspiciousTestimonials" \in DOMAIN ar.content
    /\ ar.content.hasSuspiciousTestimonials

extractCriticalIssues(ar) ==
    LET c1 == pushIf(<<>>, Falsy(ar.seo.metaDescription.content),
                DetailedIssue("missing-meta-description", <<>>,
                    "High - affects search rankings and CTR", TRUE))
        c2 == pushIf(c1, Falsy(ar.seo.canonical),
                DetailedIssue("missing-canonical", <<>>,
                    "Medium - affects search indexing", TRUE))
        c3 == pushIf(c2, Falsy(ar.seo.openGraph.title),
                DetailedIssue("missing-open-graph", <<>>,
                    "Medium - affects social media reach", TRUE))
        c4 == pushIf(c3, Falsy(ar.seo.viewport),
                DetailedIssue("missing-viewport", <<>>,
                    "High - affects mobile SEO", TRUE))
    IN  c4

extractHighPriorityIssues(ar) ==
    LET h1 == pushIf(<<>>, hasPlaceholderLinks(ar),
                DetailedIssue("broken-navigation",
                    <<"navigation links", Len(ar.content.placeholderLinks)>>,
                    "High - affects user experience and engagement", TRUE))
        h2 == pushIf(h1, ~ar.seo.title.isOptimal,
                DetailedIssue("title-optimization",
                    <<"characters", ar.seo.title.length>>,
                    "Medium - affects search rankings and CTR", FALSE))
        h3 == pushIf(h2, ar.content.images.withoutAlt > 0,
                DetailedIssue("images-accessibility",
                    <<"images", ar.content.images.withoutAlt>>,
                    "Medium - affects accessibility compliance and SEO", TRUE))
        h4 == pushIf(h3, ~ar.technical.security.hasSSL,
                DetailedIssue("no-ssl", <<>>,
                    "High - affects trust and search rankings", FALSE))
    IN  h4

extractMediumPriorityIssues(ar) ==
    LET m1 == pushIf(<<>>, hasSuspiciousTestimonials(ar),
                DetailedIssue("fake-testimonials", <<>>,
                    "Medium - affects brand credibility", FALSE))
        m2 == pushIf(m1, ar.technical.loadTime > 2 * 3000,
                DetailedIssue("slow-loading",
                    <<"ms", MathRound(ar.technical.loadTime, 2)>>,
                    "Medium - affects user engagement", FALSE))
        m3 == pushIf(m2, ar.content.wordCount < 300,
                DetailedIssue("thin-content",
                    <<"words", ar.content.wordCount>>,
                    "Medium - affects SEO performance", FALSE))
    IN  m3

calculateContentQualityScoreSeveralImages(ar) ==
    LET s0 == 100
        s1 == IF Falsy(ar.seo.metaDescription.content) THEN s0 - 20 ELSE s0
        s2 == IF hasPlaceholderLinks(ar)
              THEN s1 - Len(ar.content.placeholderLinks) * 5 ELSE s1
        s3 == IF ar.content.images.withoutAlt > 1
              THEN s2 - ar.content.images.withoutAlt * 3 ELSE s2
        s4 == IF hasSuspiciousTestimonials(ar) THEN s3 - 15 ELSE s3
    IN  Max(0, Min(100, s4))

calculateContentQualityScore(ar) ==
    LET s0 == 100
        s1 == IF Falsy(ar.seo.metaDescription.content) THEN s0 - 20 ELSE s0
        s2 == IF hasPlaceholderLinks(ar)
              THEN s1 - Len(ar.content.placeholderLinks) * 5 ELSE s1
        s3 == IF ar.content.images.withoutAlt > 0
              THEN s2 - ar.content.images.withoutAlt * 3 ELSE s2
        s4 == IF hasSuspiciousTestimonials(ar) THEN s3 - 15 ELSE s3
    IN  Max(0, Min(100, s4))

extractContentIssues(ar) ==
    LET q1 == pushIf(<<>>, Falsy(ar.seo.metaDescription.content),
                <<"Missing meta description tags">>)
        q2 == pushIf(q1, hasPlaceholderLinks(ar),
                <<"broken/placeholder links detected",
                  IF hasPlaceholderLinks(ar) THEN Len(ar.content.placeholderLinks) ELSE 0>>)
        q3 == pushIf(q2, ar.content.images.withoutAlt > 0,
                <<"images missing alt text", ar.content.images.withoutAlt>>)
        q4 == pushIf(q3, hasSuspiciousTestimonials(ar),
                <<"Fake testimonials detected">>)
    IN  q4

extractContentRecommendations(ar) ==
    <<"Add compelling meta descriptions to all pages",
      "Fix all broken and placeholder links",
      "Add descriptive alt text to all images",
      "Replace test content with real testimonials",
      "Implement proper heading hierarchy">>

calculateSEOImpact(ar) ==
    LET criticalIssues == Len(extractCriticalIssues(ar))
    IN  IF criticalIssues >= 3 THEN "30-50% with proper meta tags and fixes"
        ELSE IF criticalIssues >= 2 THEN "20-30% with SEO improvements"
        ELSE "10-20% with minor optimizations"

calculateUXImpact(ar) ==
    LET hasNavigationIssues == hasPlaceholderLinks(ar)
        hasPerformanceIssues == ar.technical.loadTime > 2 * 3000
    IN  IF hasNavigationIssues /\ hasPerformanceIssues
            THEN "High - functional navigation and performance fixes"
        ELSE IF hasNavigationIssues
            THEN "Medium - functional navigation will reduce bounce rate"
        ELSE IF hasPerformanceIssues
            THEN "Medium - performance improvements will help engagement"
        ELSE "Low to Medium - minor improvements"

calculateConversionImpact(ar) ==
    LET hasContactIssues == hasPlaceholderLinks(ar)
        hasCredibilityIssues == hasSuspiciousTestimonials(ar)
    IN  IF hasContactIssues /\ hasCredibilityIssues
            THEN "Medium to High - working contact methods and credible testimonials"
        ELSE IF hasContactIssues
            THEN "Medium - working contact methods will improve lead generation"
        ELSE IF hasCredibilityIssues
            THEN "Medium - professional testimonials will increase credibility"
        ELSE "Low to Medium - minor conversion improvements"

ActionItem(priority, task, timeline, codeExample) ==
    [priority |-> priority, task |-> task, timeline |-> timeline,
     codeExample |-> codeExample]

extractActionItems(ar) ==
    LET a1 == pushIf(<<>>, Falsy(ar.seo.metaDescription.content),
                ActionItem("immediate", "Add meta descriptions to all pages",
                           "Today", TRUE))
        a2 == pushIf(a1, hasPlaceholderLinks(ar),
                ActionItem("immediate",
                           "Fix main navigation links - replace #_ with actual URLs",
                           "Today", TRUE))
        a3 == pushIf(a2, hasSuspiciousTestimonials(ar),
                ActionItem("immediate",
                           "Replace fake testimonials with real content or remove",
                           "Today", FALSE))
        a4 == pushIf(a3, Falsy(ar.seo.openGraph.title),
                ActionItem("high", "Implement Open Graph tags for social sharing",
                           "This week", TRUE))
        a5 == pushIf(a4, ar.content.images.withoutAlt > 0,
                ActionItem("high", "Audit image alt attributes", "This week", TRUE))
        a6 == push(a5, ActionItem("medium", "Content proofreading and corrections",
                                  "This month", FALSE))
        a7 == push(a6, ActionItem("medium", "Implement structured data markup",
                                  "This month", FALSE))
    IN  a7

getFallbackAnalysis(ar) ==
    [criticalIssues       |-> extractCriticalIssues(ar),
     highPriorityIssues   |-> extractHighPriorityIssues(ar),
     mediumPriorityIssues |-> extractMediumPriorityIssues(ar),
     contentQualityAssessment |->
        [overallScore    |-> calculateContentQualityScore(ar),
         issues          |-> extractContentIssues(ar),
         recommendations |-> extractContentRecommendations(ar)],
     businessImpactProjections |->
        [searchVisibilityIncrease  |-> calculateSEOImpact(ar),
         userExperienceImprovement |-> calculateUXImpact(ar),
         conversionRateImpact      |-> calculateConversionImpact(ar)],
     actionItems |-> extractActionItems(ar)]

(***************************************************************************)
(* Heuristic deep analysis: the LLMService with the basic fallback         *)
(***************************************************************************)
extractCriticalIssuesBasic(ar) ==
    LET c1 == pushIf(<<>>, Falsy(ar.seo.metaDescription.content),
                DetailedIssue("missing-meta-description", <<>>,
                    "High - affects search rankings and CTR", TRUE))
        c2 == pushIf(c1, Falsy(ar.seo.canonical),
                DetailedIssue("missing-canonical", <<>>,
                    "Medium - affects search indexing", TRUE))
    IN  c2

extractHighPriorityIssuesBasic(ar) ==
    pushIf(<<>>, ~ar.seo.title.isOptimal,
        DetailedIssue("title-optimization",
            <<"characters", ar.seo.title.length>>,
            "Medium - affects click-through rates", FALSE))

extractMediumPriorityIssuesBasic(ar) ==
    pushIf(<<>>, Falsy(ar.seo.openGraph.title),
        DetailedIssue("missing-og-tags", <<>>,
            "Low to Medium - affects social media reach", FALSE))

getFallbackAnalysisBasic(ar) ==
    [criticalIssues       |-> extractCriticalIssuesBasic(ar),
     highPriorityIssues   |-> extractHighPriorityIssuesBasic(ar),
     mediumPriorityIssues |-> extractMediumPriorityIssuesBasic(ar),
     contentQualityAssessment |->
        [overallScore    |-> 75,
         issues          |-> <<<<"Basic content analysis - LLM not available">>>>,
         recommendations |-> <<"Enable LLM integration for detailed content analysis">>],
     businessImpactProjections |->
        [searchVisibilityIncrease  |-> "20-30%",
         userExperienceImprovement |-> "Medium",
         conversionRateImpact      |-> "Low to Medium"],
     actionItems |-> <<ActionItem("immediate", "Fix critical SEO issues", "Today", FALSE)>>]

GetFallbackAnalysis ==
    /\ pc = "audited"
    /\ llmAnalysis' = getFallbackAnalysis(AuditResult)
    /\ pc' = "analysis"
    /\ UNCHANGED serviceVars
    /\ UNCHANGED <<page, seo, technical, content, performance, issues,
                   recommendations, categories, overallScore>>

GetFallbackAnalysisBasic ==
    /\ pc = "audited"
    /\ llmAnalysis' = getFallbackAnalysisBasic(AuditResult)
    /\ pc' = "basicAnalysis"
    /\ UNCHANGED serviceVars
    /\ UNCHANGED <<page, seo, technical, content, performance, issues,
                   recommendations, categories, overallScore>>

(***************************************************************************)
(* The heuristic generator on arbitrary AuditResults                       *)
(***************************************************************************)
PlaceholderLinks(n) == [k \in 1..n |-> "#_"]

AnalysedPages ==
    [title              : {29, 45},
     metaDescription    : {Null, Str(0), Str(140)},
     hasViewportElement : BOOLEAN,
     viewportContent    : {Null, Str(35)},
     canonical          : {Null, Str(27)},
     ogTitle            : {Null, Str(12)},
     h1                 : {Headings(1)},
     imagesWithoutAlt   : 0..MaxWithoutAlt,
     emptyLinks         : {0},
     url                : {"http", "https"},
     loadTime           : {2 * 3000, 2 * 3000 + 1},
     wordCount          : {299, 300}]

\* the optional extras of ContentAnalysis, each present or absent
ContentExtras ==
    LET links == {<<>>} \cup {<<"placeholderLinks" :> PlaceholderLinks(n)>> : n \in 0..MaxPlaceholderLinks}
        flags == {<<>>} \cup {<<"hasSuspiciousTestimonials" :> b>> : b \in BOOLEAN}
    IN  {<<l, f>> : l \in links, f \in flags}

withExtras(c, extras) ==
    LET withLinks == IF extras[1] = <<>> THEN c ELSE c @@ extras[1][1]
    IN  IF extras[2] = <<>> THEN withLinks ELSE withLinks @@ extras[2][1]

InitFallback ==
    /\ pc = "audited"
    /\ page \in {p \in AnalysedPages : ~p.hasViewportElement => p.viewportContent = Null}
    /\ seo = analyzeSEO(page)
    /\ technical = analyzeTechnical(page)
    /\ \E extras \in ContentExtras : content = withExtras(analyzeContent(page), extras)
    /\ performance = analyzePerformance(page)
    /\ LET result == analyzeIssuesAndRecommendations(seo, technical, content, performance)
       IN  /\ issues = result.issues
           /\ recommendations = result.recommendations
    /\ categories = calculateCategoryScores(issues)
    /\ overallScore = calculateOverallScore(categories)
    /\ llmAnalysis = Pending
    /\ ServiceIdle

NextFallback == GetFallbackAnalysis \/ GetFallbackAnalysisBasic

SpecFallback == InitFallback /\ [][NextFallback]_vars

(***************************************************************************)
(* Properties of the heuristic deep analysis                               *)
(***************************************************************************)
Analysed == pc \in {"analysis", "basicAnalysis"}

B(cond) == IF cond THEN 1 ELSE 0
PlaceholderCount ==
    IF "placeholderLinks" \in DOMAIN content THEN Len(content.placeholderLinks) ELSE 0
TestimonialsFlagged ==
    "hasSuspiciousTestimonials" \in DOMAIN content /\ content.hasSuspiciousTestimonials
DescriptionMissing == seo.metaDescription.content \in {Null, Str(0)}

ExpectedContentQuality ==
    Max(0, Min(100, 100 - 20 * B(DescriptionMissing) - 5 * PlaceholderCount
                        - 3 * content.images.withoutAlt - 15 * B(TestimonialsFlagged)))

ContentQualityAsClaimed ==
    /\ llmAnalysis.contentQualityAssessment.overallScore = ExpectedContentQuality
    /\ llmAnalysis.contentQualityAssessment.overallScore \in 0..100
    /\ (/\ DescriptionMissing
        /\ PlaceholderCount = 0
        /\ content.images.withoutAlt = 0
        /\ ~TestimonialsFlagged)
       => llmAnalysis.contentQualityAssessment.overallScore = 80

\* C9: the heuristic content-quality score is 100 - 20 (meta description
\* missing) - 5 per placeholder link - 3 per image missing alt - 15
\* (suspicious testimonials), clamped to 0..100; 80 when only the meta
\* description is missing.
C9_ContentQualityScore == Analysed => ContentQualityAsClaimed

\* the same statement for the LLMService that computes the score
C9_ContentQualityScoreFullService == pc = "analysis" => ContentQualityAsClaimed

CriticalOrder ==
    <<"missing-meta-description", "missing-canonical", "missing-open-graph",
      "missing-viewport">>

CriticalHolds(id) ==
    CASE id = "missing-meta-description" -> seo.metaDescription.content \in {Null, Str(0)}
      [] id = "missing-canonical"        -> seo.canonical \in {Null, Str(0)}
      [] id = "missing-open-graph"       -> seo.openGraph.title \in {Null, Str(0)}
      [] id = "missing-viewport"         -> seo.viewport \in {Null, Str(0)}

CriticalAsClaimed ==
    [k \in DOMAIN llmAnalysis.criticalIssues |-> llmAnalysis.criticalIssues[k].id]
        = SelectSeq(CriticalOrder, CriticalHolds)

\* C10: the critical tier is exactly, in this order, missing meta description,
\* missing canonical, missing Open Graph title, missing viewport, each present
\* iff the field of the SEO bundle is absent or empty.
C10_CriticalTier == Analysed => CriticalAsClaimed

\* the same statement for the LLMService with the four-rule table
C10_CriticalTierFullService == pc = "analysis" => CriticalAsClaimed

TierIds(tier) == [k \in DOMAIN tier |-> tier[k].id]

HighOrder ==
    <<"broken-navigation", "title-optimization", "images-accessibility", "no-ssl">>

HighHolds(id) ==
    CASE id = "broken-navigation"    -> PlaceholderCount > 0
      [] id = "title-optimization"   -> ~seo.title.isOptimal
      [] id = "images-accessibility" -> content.images.withoutAlt > 0
      [] id = "no-ssl"               -> ~technical.security.hasSSL

HighAsClaimed ==
    TierIds(llmAnalysis.highPriorityIssues) = SelectSeq(HighOrder, HighHolds)

\* C11: the high-priority tier is exactly, in this order, placeholder links
\* present, non-optimal title, images missing alt, no SSL, each present iff
\* its predicate holds.
C11_HighTier == Analysed => HighAsClaimed

\* the same statement for the LLMService with the four-rule table
C11_HighTierFullService == pc = "analysis" => HighAsClaimed

MediumOrder == <<"fake-testimonials", "slow-loading", "thin-content">>

MediumHolds(id) ==
    CASE id = "fake-testimonials" -> TestimonialsFlagged
      [] id = "slow-loading"      -> technical.loadTime > 6000
      [] id = "thin-content"      -> content.wordCount < 300

MediumAsClaimed ==
    /\ TierIds(llmAnalysis.mediumPriorityIssues) = SelectSeq(MediumOrder, MediumHolds)
    /\ content.wordCount = 300 =>
          \A k \in DOMAIN llmAnalysis.mediumPriorityIssues :
              llmAnalysis.mediumPriorityIssues[k].id # "thin-content"
    /\ technical.loadTime = 6000 =>
          \A k \in DOMAIN llmAnalysis.mediumPriorityIssues :
              llmAnalysis.mediumPriorityIssues[k].id # "slow-loading"

\* C12: the medium-priority tier is exactly, in this order, suspicious
\* testimonials, load time over 3000 ms, word count under 300; exactly 300
\* words and exactly 3000 ms are not flagged.
C12_MediumTier == Analysed => MediumAsClaimed

\* the same statement for the LLMService with the three-rule table
C12_MediumTierFullService == pc = "analysis" => MediumAsClaimed

ImpactAsClaimed ==
    LET proj == llmAnalysis.businessImpactProjections
        critical == Len(llmAnalysis.criticalIssues)
        links == PlaceholderCount > 0
        slow == technical.loadTime > 6000
        fake == TestimonialsFlagged
    IN  /\ proj.searchVisibilityIncrease =
              (CASE critical >= 3 -> "30-50% with proper meta tags and fixes"
                 [] critical = 2  -> "20-30% with SEO improvements"
                 [] OTHER         -> "10-20% with minor optimizations")
        /\ proj.userExperienceImprovement =
              (CASE links /\ slow  -> "High - functional navigation and performance fixes"
                 [] links /\ ~slow -> "Medium - functional navigation will reduce bounce rate"
                 [] ~links /\ slow -> "Medium - performance improvements will help engagement"
                 [] OTHER          -> "Low to Medium - minor improvements")
        /\ proj.conversionRateImpact =
              (CASE links /\ fake  -> "Medium to High - working contact methods and credible testimonials"
                 [] links /\ ~fake -> "Medium - working contact methods will improve lead generation"
                 [] ~links /\ fake -> "Medium - professional testimonials will increase credibility"
                 [] OTHER          -> "Low to Medium - minor conversion improvements")

\* C13: the three business-impact strings are looked up from the number of
\* critical issues of the same analysis, from (placeholder links, slow load)
\* and from (placeholder links, suspicious testimonials), and from nothing else.
C13_BusinessImpact == Analysed => ImpactAsClaimed

\* the same statement for the LLMService with the lookup tables
C13_BusinessImpactFullService == pc = "analysis" => ImpactAsClaimed

ActionOrder ==
    <<"Add meta descriptions to all pages",
      "Fix main navigation links - replace #_ with actual URLs",
      "Replace fake testimonials with real content or remove",
      "Implement Open Graph tags for social sharing",
      "Audit image alt attributes",
      "Content proofreading and corrections",
      "Implement structured data markup">>

ActionHolds(task) ==
    CASE task = "Add meta descriptions to all pages" -> DescriptionMissing
      [] task = "Fix main navigation links - replace #_ with actual URLs" -> PlaceholderCount > 0
      [] task = "Replace fake testimonials with real content or remove" -> TestimonialsFlagged
      [] task = "Implement Open Graph tags for social sharing" -> seo.openGraph.title \in {Null, Str(0)}
      [] task = "Audit image alt attributes" -> content.images.withoutAlt > 0
      [] OTHER -> TRUE

ActionPriority(task) ==
    CASE task \in {"Add meta descriptions to all pages",
                   "Fix main navigation links - replace #_ with actual URLs",
                   "Replace fake testimonials with real content or remove"} -> "immediate"
      [] task \in {"Implement Open Graph tags for social sharing",
                   "Audit image alt attributes"} -> "high"
      [] OTHER -> "medium"

PriorityRank(p) ==
    CASE p = "immediate" -> 0 [] p = "high" -> 1 [] p = "medium" -> 2 [] OTHER -> 3

ActionsAsClaimed ==
    LET items == llmAnalysis.actionItems
        n == Len(items)
    IN  /\ [k \in DOMAIN items |-> items[k].task] = SelectSeq(ActionOrder, ActionHolds)
        /\ \A k \in DOMAIN items : items[k].priority = ActionPriority(items[k].task)
        /\ \A j, k \in DOMAIN items :
              j < k => PriorityRank(items[j].priority) <= PriorityRank(items[k].priority)
        /\ n >= 2
        /\ items[n - 1].task = "Content proofreading and corrections"
        /\ items[n].task = "Implement structured data markup"

\* C14: the action items are the immediate items (meta description, broken
\* navigation, testimonials), then the high items (Open Graph, image alt),
\* each present iff its condition holds, then always the two medium items.
C14_ActionItems == Analysed => ActionsAsClaimed

\* the same statement for the LLMService with the two-pass action list
C14_ActionItemsFullService == pc = "analysis" => ActionsAsClaimed

ContentScore == llmAnalysis.contentQualityAssessment.overallScore
ContentIssues == llmAnalysis.contentQualityAssessment.issues
DeductionEntries ==
    {"Missing meta description tags", "broken/placeholder links detected",
     "images missing alt text", "Fake testimonials detected"}
EntriesOf(text) == {k \in DOMAIN ContentIssues : ContentIssues[k][1] = text}
HasEntry(text) == EntriesOf(text) # {}

\* what the entries of the issue list say was taken off the score
DeductionOf(entry) ==
    CASE entry[1] = "Missing meta description tags"     -> 20
      [] entry[1] = "broken/placeholder links detected" -> 5 * entry[2]
      [] entry[1] = "images missing alt text"           -> 3 * entry[2]
      [] entry[1] = "Fake testimonials detected"        -> 15
      [] OTHER                                          -> 0

RECURSIVE DeductionsOf(_)
DeductionsOf(list) ==
    IF list = <<>> THEN 0 ELSE DeductionOf(Head(list)) + DeductionsOf(Tail(list))

\* C30: in every heuristic deep analysis the content-quality score is 100 if
\* and only if the issue list is empty, and each of the four deductions
\* (missing meta description, placeholder links, images missing alt,
\* suspicious testimonials) is taken off the score exactly when its entry is
\* in the issue list: the service that computes the score returns 100 less
\* the deductions of the listed entries, clamped to 0..100, each entry listed
\* when its condition holds of the audit; the service with the fixed score of
\* 75 takes none of the four off and lists none of the four.
C30_ContentQualityConsistent ==
    /\ Analysed => (ContentScore = 100 <=> ContentIssues = <<>>)
    /\ Analysed => \A text \in DeductionEntries : Cardinality(EntriesOf(text)) <= 1
    /\ pc = "analysis" =>
          /\ ContentScore = Max(0, Min(100, 100 - DeductionsOf(ContentIssues)))
          /\ \A k \in DOMAIN ContentIssues :
                /\ ContentIssues[k][1] \in DeductionEntries
                /\ DeductionOf(ContentIssues[k]) > 0
          /\ HasEntry("Missing meta description tags") <=> DescriptionMissing
          /\ HasEntry("broken/placeholder links detected") <=> PlaceholderCount > 0
          /\ HasEntry("images missing alt text") <=> content.images.withoutAlt > 0
          /\ HasEntry("Fake testimonials detected") <=> TestimonialsFlagged
    /\ pc = "basicAnalysis" =>
          /\ \A text \in DeductionEntries : ~HasEntry(text)
          /\ ContentScore = 75

\* all four entries listed and their deductions visible in the score
C30_Witness ==
    /\ pc = "analysis"
    /\ Len(ContentIssues) = 4
    /\ ContentScore = 100 - DeductionsOf(ContentIssues)
    /\ ContentScore \in 1..99

(***************************************************************************)
(* LLMService.analyzeAuditResults and the generative-analysis collaborator *)
(***************************************************************************)
\* the text of an answer: what the two regular expressions of
\* parseAnalysisResponse find in it, and what JSON.parse makes of the match
Texts ==
    {[match |-> "none", payload |-> "invalid"]}
    \cup [match : {"fence", "braces"}, payload : {"invalid", "other", "analysis"}]

\* the body of a response: whether response.json() succeeds, whether the
\* parsed data has content[0].text, and the text
Bodies ==
    {[json |-> FALSE, hasText |-> FALSE, text |-> [match |-> "none", payload |-> "invalid"]],
     [json |-> TRUE, hasText |-> FALSE, text |-> [match |-> "none", payload |-> "invalid"]]}
    \cup [json : {TRUE}, hasText : {TRUE}, text : Texts]

Responses ==
    {[ok |-> FALSE, body |-> [json |-> TRUE, hasText |-> FALSE,
                              text |-> [match |-> "none", payload |-> "invalid"]]]}
    \cup [ok : {TRUE}, body : Bodies]

\* a DeepAnalysis written by the collaborator
CollaboratorAnalysis ==
    [criticalIssues       |-> <<DetailedIssue("collaborator-finding", <<>>, "High", FALSE)>>,
     highPriorityIssues   |-> <<>>,
     mediumPriorityIssues |-> <<>>,
     contentQualityAssessment |->
        [overallScore |-> 62, issues |-> <<>>, recommendations |-> <<>>],
     businessImpactProjections |->
        [searchVisibilityIncrease  |-> "collaborator text",
         userExperienceImprovement |-> "collaborator text",
         conversionRateImpact      |-> "collaborator text"],
     actionItems |-> <<>>]

\* valid JSON that is not a DeepAnalysis
OtherShape == [error |-> [type |-> "overloaded_error"]]

jsonParses(payload) == payload # "invalid"
JSONparse(payload) == IF payload = "analysis" THEN CollaboratorAnalysis ELSE OtherShape

parseAnalysisResponseBasic(text, ar) ==
    IF text.match # "none" /\ jsonParses(text.payload)
    THEN JSONparse(text.payload)
    ELSE getFallbackAnalysisBasic(ar)

\* the try block of analyzeAuditResults once fetch has settled
afterFetchBasic(service, ar) ==
    IF service.fetch = "rejected" THEN getFallbackAnalysisBasic(ar)
    ELSE IF ~service.response.ok THEN getFallbackAnalysisBasic(ar)
    ELSE IF ~service.response.body.json THEN getFallbackAnalysisBasic(ar)
    ELSE IF ~service.response.body.hasText THEN getFallbackAnalysisBasic(ar)
    ELSE parseAnalysisResponseBasic(service.response.body.text, ar)

llmUnchanged ==
    UNCHANGED <<page, seo, technical, content, performance, issues,
                recommendations, categories, overallScore,
                browserInstance, browsers, contexts, pages, audit, audits>>

\* analyzeAuditResults of the service with the full rule tables: the
\* unconditional return of the fallback at its first statement
AnalyzeAuditResults ==
    /\ pc = "audited"
    /\ llmAnalysis' = getFallbackAnalysis(AuditResult)
    /\ pc' = "returned"
    /\ UNCHANGED llm
    /\ llmUnchanged

\* analyzeAuditResults of the basic service, up to its first await
AnalyzeAuditResultsBasic ==
    /\ pc = "audited"
    /\ IF ~llm.apiKey
       THEN /\ llmAnalysis' = getFallbackAnalysisBasic(AuditResult)
            /\ pc' = "basicReturned"
            /\ UNCHANGED llm
       ELSE /\ llm' = [llm EXCEPT !.fetch = "pending"]
            /\ pc' = "fetching"
            /\ UNCHANGED llmAnalysis
    /\ llmUnchanged

\* the collaborator: the request fails in transport
FetchRejects ==
    /\ pc = "fetching"
    /\ llm.fetch = "pending"
    /\ llm.answers
    /\ llm' = [llm EXCEPT !.fetch = "rejected"]
    /\ UNCHANGED <<pc, llmAnalysis>>
    /\ llmUnchanged

\* the collaborator: a response arrives
FetchResolves ==
    /\ pc = "fetching"
    /\ llm.fetch = "pending"
    /\ llm.answers
    /\ \E r \in Responses :
          llm' = [llm EXCEPT !.fetch = "resolved", !.response = r]
    /\ UNCHANGED <<pc, llmAnalysis>>
    /\ llmUnchanged

\* analyzeAuditResults of the basic service, from the settled fetch to return
AnalyzeAuditResultsBasicResume ==
    /\ pc = "fetching"
    /\ llm.fetch \in {"rejected", "resolved"}
    /\ llmAnalysis' = afterFetchBasic(llm, AuditResult)
    /\ pc' = "basicReturned"
    /\ UNCHANGED llm
    /\ llmUnchanged

LLMPages ==
    [title              : {45},
     metaDescription    : {Null, Str(140)},
     hasViewportElement : {TRUE},
     viewportContent    : {Str(35)},
     canonical          : {Null, Str(27)},
     ogTitle            : {Str(12)},
     h1                 : {Headings(1)},
     imagesWithoutAlt   : {0, 1},
     emptyLinks         : {0},
     url                : {"https"},
     loadTime           : {2 * 800},
     wordCount          : {300}]

InitLLM ==
    /\ pc = "audited"
    /\ page \in LLMPages
    /\ seo = analyzeSEO(page)
    /\ technical = analyzeTechnical(page)
    /\ content = analyzeContent(page)
    /\ performance = analyzePerformance(page)
    /\ LET result == analyzeIssuesAndRecommendations(seo, technical, content, performance)
       IN  /\ issues = result.issues
           /\ recommendations = result.recommendations
    /\ categories = calculateCategoryScores(issues)
    /\ overallScore = calculateOverallScore(categories)
    /\ llmAnalysis = Pending
    /\ llm \in [apiKey : BOOLEAN, answers : BOOLEAN, fetch : {"idle"}, response : {Pending}]
    /\ browserInstance = 0
    /\ browsers = <<>>
    /\ contexts = <<>>
    /\ pages = <<>>
    /\ audit = <<>>
    /\ audits = <<>>

NextLLM ==
    \/ AnalyzeAuditResults
    \/ AnalyzeAuditResultsBasic
    \/ FetchRejects
    \/ FetchResolves
    \/ AnalyzeAuditResultsBasicResume

SpecLLM == InitLLM /\ [][NextLLM]_vars

\* the service's own steps are scheduled; the collaborator owes nothing
SpecLLMFair ==
    /\ SpecLLM
    /\ WF_vars(AnalyzeAuditResults)
    /\ WF_vars(AnalyzeAuditResultsBasic)
    /\ WF_vars(AnalyzeAuditResultsBasicResume)

Returned == pc \in {"returned", "basicReturned"}

OwnFallback ==
    IF pc = "returned" THEN getFallbackAnalysis(AuditResult)
    ELSE getFallbackAnalysisBasic(AuditResult)

\* the collaborator was not asked: the service has no API key
NoApiKey == ~llm.apiKey
TransportFailed == llm.fetch = "rejected"
StatusNotOk == llm.fetch = "resolved" /\ ~llm.response.ok
\* the answer holds no text that parses into a DeepAnalysis
NotADeepAnalysis ==
    /\ llm.fetch = "resolved"
    /\ llm.response.ok
    /\ ~(/\ llm.response.body.json
         /\ llm.response.body.hasText
         /\ llm.response.body.text.match # "none"
         /\ llm.response.body.text.payload = "analysis")

\* C15: analyzeAuditResults returns the heuristic fallback whenever there is
\* no API key, the transport fails, the status is not success, or the text
\* does not parse into a DeepAnalysis (valid JSON of another shape included).
C15_FallbackOnEveryFailure ==
    (Returned /\ (NoApiKey \/ TransportFailed \/ StatusNotOk \/ NotADeepAnalysis))
        => llmAnalysis = OwnFallback

\* the same statement without the answers that are valid JSON of another shape
C15_FallbackUnlessJsonParses ==
    (/\ Returned
     /\ \/ NoApiKey \/ TransportFailed \/ StatusNotOk
        \/ (NotADeepAnalysis /\ ~(/\ llm.response.body.json
                                  /\ llm.response.body.hasText
                                  /\ llm.response.body.text.match # "none"
                                  /\ llm.response.body.text.payload = "other")))
        => llmAnalysis = OwnFallback

\* C16: when the collaborator never answers, the deep-analysis step still
\* completes with the heuristic fallback.
C16_SilentCollaboratorStillCompletes ==
    [](~llm.answers => <>(Returned /\ llmAnalysis = OwnFallback))

(***************************************************************************)
(* Concurrent audits: AuditService.runAudit, getBrowser and                *)
(* runPlaywrightAudit, one step per await.  Browsers are numbered in order *)
(* of launch; a context, a page and a stored record are named after the    *)
(* call that created them; 0 is null.  contexts and pages hold the ones    *)
(* that are open.                                                          *)
(***************************************************************************)
Audits == 1 .. NumAudits

pipelineVars == <<pc, page, seo, technical, content, performance, issues,
                  recommendations, categories, overallScore, llmAnalysis, llm>>

\* url strings by what new URL(url) makes of them
Urls ==
    {[parses |-> FALSE, protocol |-> "none"]}
        \cup [parses : {TRUE}, protocol : {"http:", "https:", "ftp:"}]

isValidURLAnyProtocol(url) == url.parses

isValidURL(url) ==
    IF url.parses THEN url.protocol \in {"http:", "https:"} ELSE FALSE

\* the locals of a runAudit call that has not started; requested and failed
\* record what the call's own page did, for comparison with its arrays,
\* navigation records that page.goto rejected, for as long as the call lasts,
\* and handed records the state the browser was in when getBrowser returned it
NoAudit ==
    [pc              |-> "idle",
     url             |-> Null,
     browser         |-> 0,
     context         |-> 0,
     page            |-> 0,
     networkRequests |-> 0,
     failedRequests  |-> 0,
     requested       |-> 0,
     failed          |-> 0,
     desktop         |-> "none",
     navigation      |-> "none",
     handed          |-> "none"]

\* a call whose locals are gone
Left(at) == [NoAudit EXCEPT !.pc = at]

\* Map without a key
Without(map, key) == [k \in DOMAIN map \ {key} |-> map[k]]

\* the callbacks a request or response event of page p runs
allListeners(ps, p) == UNION {ps[q].listeners : q \in DOMAIN ps}

requestListeners(ps, p) == ps[p].listeners

\* runAudit up to its first await
RunAudit(a) ==
    /\ audit[a].pc = "idle"
    /\ \E url \in Urls :
          audit' = [audit EXCEPT ![a].url = url,
                                 ![a].pc = IF ~isValidURL(url) THEN "rejected"
                                           ELSE "getBrowser"]
    /\ UNCHANGED <<browserInstance, browsers, contexts, pages, audits>>
    /\ UNCHANGED pipelineVars

\* getBrowser up to its await, or to its return when a browser is there
GetBrowser(a) ==
    /\ audit[a].pc = "getBrowser"
    /\ IF browserInstance = 0
       THEN /\ browsers' = Append(browsers, "chromium")
            /\ audit' = [audit EXCEPT ![a].browser = Len(browsers) + 1,
                                      ![a].pc = "launching"]
       ELSE /\ audit' = [audit EXCEPT ![a].browser = browserInstance,
                                      ![a].handed = browsers[browserInstance],
                                      ![a].pc = "newContext"]
            /\ UNCHANGED browsers
    /\ UNCHANGED <<browserInstance, contexts, pages, audits>>
    /\ UNCHANGED pipelineVars

\* chromium.launch resolves: the assignment and the return of getBrowser
LaunchResolves(a) ==
    /\ audit[a].pc = "launching"
    /\ browserInstance' = audit[a].browser
    /\ audit' = [audit EXCEPT ![a].handed = browsers[audit[a].browser],
                              ![a].pc = "newContext"]
    /\ UNCHANGED <<browsers, contexts, pages, audits>>
    /\ UNCHANGED pipelineVars

\* chromium.launch rejects: runAudit rejects with it
LaunchRejects(a) ==
    /\ audit[a].pc = "launching"
    /\ audit' = [audit EXCEPT ![a] = Left("failed")]
    /\ UNCHANGED <<browserInstance, browsers, contexts, pages, audits>>
    /\ UNCHANGED pipelineVars

\* browser.newContext resolves or rejects
NewContext(a) ==
    /\ audit[a].pc = "newContext"
    /\ \/ /\ contexts' = (a :> [browser |-> audit[a].browser]) @@ contexts
          /\ audit' = [audit EXCEPT ![a].context = a,
                                    ![a].pc = "newPage"]
       \/ /\ audit' = [audit EXCEPT ![a] = Left("failed")]
          /\ UNCHANGED contexts
    /\ UNCHANGED <<browserInstance, browsers, pages, audits>>
    /\ UNCHANGED pipelineVars

\* context.newPage resolves, and the listeners are registered before goto
\* is awaited
NewPage(a) ==
    /\ audit[a].pc = "newPage"
    /\ pages' = (a :> [context   |-> audit[a].context,
                       viewport  |-> "desktop",
                       listeners |-> {a}]) @@ pages
    /\ audit' = [audit EXCEPT ![a].page = a,
                              ![a].pc = "goto"]
    /\ UNCHANGED <<browserInstance, browsers, contexts, audits>>
    /\ UNCHANGED pipelineVars

\* context.newPage rejects: the statement is outside the try block, so
\* runPlaywrightAudit rejects without running the finally block
NewPageRejects(a) ==
    /\ audit[a].pc = "newPage"
    /\ audit' = [audit EXCEPT ![a] = Left("failed")]
    /\ UNCHANGED <<browserInstance, browsers, contexts, pages, audits>>
    /\ UNCHANGED pipelineVars

\* the requests the pages have issued and the audits have not yet analysed
Requested[n \in 0 .. NumAudits] ==
    IF n = 0 THEN 0 ELSE Requested[n - 1] + audit[n].requested

\* the page of audit a issues a request and receives the response
PageRequest(a) ==
    /\ audit[a].pc = "goto"
    /\ Requested[NumAudits] < MaxRequests
    /\ \E ok \in BOOLEAN :
          LET heard == requestListeners(pages, audit[a].page)
              own(b) == IF b = a
                        THEN [audit[b] EXCEPT
                                 !.requested = @ + 1,
                                 !.failed = IF ok THEN @ ELSE @ + 1]
                        ELSE audit[b]
          IN  audit' = [b \in Audits |->
                          IF b \in heard
                          THEN [own(b) EXCEPT
                                  !.networkRequests = @ + 1,
                                  !.failedRequests = IF ok THEN @ ELSE @ + 1]
                          ELSE own(b)]
    /\ UNCHANGED <<browserInstance, browsers, contexts, pages, audits>>
    /\ UNCHANGED pipelineVars

\* page.goto and page.waitForSelector resolve
Goto(a) ==
    /\ audit[a].pc = "goto"
    /\ audit' = [audit EXCEPT ![a].pc = "analyze"]
    /\ UNCHANGED <<browserInstance, browsers, contexts, pages, audits>>
    /\ UNCHANGED pipelineVars

\* the four analyzers, the last readers of the two arrays; then either
\* captureScreenshots is entered or issues and scores are computed at once
Analyze(a) ==
    /\ audit[a].pc = "analyze"
    /\ \E includeScreenshots \in BOOLEAN :
          audit' = [audit EXCEPT ![a].networkRequests = 0,
                                 ![a].failedRequests = 0,
                                 ![a].requested = 0,
                                 ![a].failed = 0,
                                 ![a].pc = IF includeScreenshots
                                           THEN "screenshot" ELSE "finally"]
    /\ UNCHANGED <<browserInstance, browsers, contexts, pages, audits>>
    /\ UNCHANGED pipelineVars

\* captureScreenshots: the desktop screenshot
DesktopScreenshot(a) ==
    /\ audit[a].pc = "screenshot"
    /\ audit' = [audit EXCEPT ![a].desktop = pages[audit[a].page].viewport,
                              ![a].pc = "mobileScreenshot"]
    /\ UNCHANGED <<browserInstance, browsers, contexts, pages, audits>>
    /\ UNCHANGED pipelineVars

\* setViewportSize and the mobile screenshot, then issues, scores and the
\* return statement
MobileScreenshot(a) ==
    /\ audit[a].pc = "mobileScreenshot"
    /\ pages' = [pages EXCEPT ![audit[a].page].viewport = "mobile"]
    /\ audit' = [audit EXCEPT ![a].pc = "finally"]
    /\ UNCHANGED <<browserInstance, browsers, contexts, audits>>
    /\ UNCHANGED pipelineVars

\* an awaited call inside the try block rejects (a navigation timeout
\* included): the block is left, and the two arrays declared in it with it
StepRejects(a) ==
    /\ audit[a].pc \in {"goto", "analyze", "screenshot", "mobileScreenshot"}
    /\ audit' = [audit EXCEPT ![a].networkRequests = 0,
                              ![a].failedRequests = 0,
                              ![a].requested = 0,
                              ![a].failed = 0,
                              ![a].navigation = IF audit[a].pc = "goto"
                                                THEN "failed" ELSE @,
                              ![a].pc = "finallyThrown"]
    /\ UNCHANGED <<browserInstance, browsers, contexts, pages, audits>>
    /\ UNCHANGED pipelineVars

\* where runAudit goes on once the finally block has run: to saveAudit with
\* the result returned, or out with the error rethrown
afterFinallyReturns(at) == "saveAudit"

afterFinally(at) == IF at = "finally" THEN "saveAudit" ELSE "failed"

\* the finally block: context.close, then the return or the rethrow
CloseContext(a) ==
    /\ audit[a].pc \in {"finally", "finallyThrown"}
    /\ contexts' = Without(contexts, audit[a].context)
    /\ pages' = [p \in {q \in DOMAIN pages :
                            pages[q].context # audit[a].context} |-> pages[p]]
    /\ LET at == afterFinally(audit[a].pc)
       IN  audit' = [audit EXCEPT ![a] =
                        IF at = "saveAudit"
                        THEN [Left(at) EXCEPT !.url = audit[a].url,
                                              !.navigation = audit[a].navigation]
                        ELSE Left(at)]
    /\ UNCHANGED <<browserInstance, browsers, audits>>
    /\ UNCHANGED pipelineVars

\* storage.saveAudit and the return of runAudit
SaveAudit(a) ==
    /\ audit[a].pc = "saveAudit"
    /\ audits' = (a :> [url    |-> audit[a].url,
                        id     |-> a,
                        status |-> "completed"]) @@ audits
    /\ audit' = [audit EXCEPT ![a] = Left("returned")]
    /\ UNCHANGED <<browserInstance, browsers, contexts, pages>>
    /\ UNCHANGED pipelineVars

InitRun ==
    /\ pc = "serving"
    /\ page = Pending
    /\ seo = Pending
    /\ technical = Pending
    /\ content = Pending
    /\ performance = Pending
    /\ issues = <<>>
    /\ recommendations = <<>>
    /\ categories = Pending
    /\ overallScore = 0
    /\ llmAnalysis = Pending
    /\ llm = Pending
    /\ browserInstance = 0
    /\ browsers = <<>>
    /\ contexts = <<>>
    /\ pages = <<>>
    /\ audit = [a \in Audits |-> NoAudit]
    /\ audits = <<>>

NextRun ==
    \E a \in Audits :
        \/ RunAudit(a)
        \/ GetBrowser(a)
        \/ LaunchResolves(a)
        \/ LaunchRejects(a)
        \/ NewContext(a)
        \/ NewPage(a)
        \/ NewPageRejects(a)
        \/ PageRequest(a)
        \/ Goto(a)
        \/ Analyze(a)
        \/ DesktopScreenshot(a)
        \/ MobileScreenshot(a)
        \/ StepRejects(a)
        \/ CloseContext(a)
        \/ SaveAudit(a)

SpecRun == InitRun /\ [][NextRun]_vars

\* runPlaywrightAudit of audit a has returned or thrown
Finished(a) == audit[a].pc \in {"saveAudit", "returned", "failed"}

\* C17: under concurrent calls of getBrowser at most one browser is launched
\* and every caller receives the same browser.
C17_AtMostOneLaunch ==
    /\ Len(browsers) <= 1
    /\ \A c, d \in DOMAIN contexts : contexts[c].browser = contexts[d].browser

\* C18: every context an audit created is closed once the audit has left
\* runPlaywrightAudit, whether it returned or failed at any step.
C18_ContextsClosed ==
    \A a \in Audits : Finished(a) => a \notin DOMAIN contexts

\* C19: audits running at once share no per-audit state: each has its own
\* context and page, its arrays hold the requests of its own page only, and
\* its desktop screenshot sees the viewport its own context was given.
C19_NoSharedAuditState ==
    /\ \A a, b \in Audits :
          a # b =>
             /\ (audit[a].context # 0 => audit[a].context # audit[b].context)
             /\ (audit[a].page # 0 => audit[a].page # audit[b].page)
    /\ \A a \in Audits :
          /\ audit[a].page # 0 =>
                /\ pages[audit[a].page].context = audit[a].context
                /\ pages[audit[a].page].listeners = {a}
          /\ audit[a].networkRequests = audit[a].requested
          /\ audit[a].failedRequests = audit[a].failed
          /\ audit[a].desktop \in {"none", "desktop"}

\* two audits load their pages in the same browser at once: one has heard a
\* request of its page, the other has heard none
C19_Witness ==
    \E a, b \in Audits :
        /\ a # b
        /\ audit[a].browser = audit[b].browser
        /\ audit[a].pc = "goto" /\ audit[a].networkRequests = 1
        /\ audit[b].pc = "goto" /\ audit[b].networkRequests = 0

\* C20: a url that does not parse or is not http(s) is rejected before any
\* browser work, and nothing is saved for it.
C20_InvalidUrlRejected ==
    /\ \A a \in Audits :
          (audit[a].url # Null /\ ~(/\ audit[a].url.parses
                                    /\ audit[a].url.protocol \in {"http:", "https:"}))
              => /\ audit[a].pc = "rejected"
                 /\ audit[a].browser = 0
                 /\ audit[a].context = 0
                 /\ audit[a].page = 0
    /\ \A id \in DOMAIN audits :
          /\ audits[id].url.parses
          /\ audits[id].url.protocol \in {"http:", "https:"}

\* one call is rejected for its ftp url while another one, with an https
\* url, has been saved
C20_Witness ==
    \E a, b \in Audits :
        /\ audit[a].pc = "rejected"
        /\ audit[a].url.parses /\ audit[a].url.protocol = "ftp:"
        /\ audit[b].pc = "returned"
        /\ b \in DOMAIN audits
        /\ audits[b].url.protocol = "https:"

\* C21: when navigation fails the audit fails with that one error: page.goto
\* is not called again, no extraction step and no screenshot runs, no
\* AuditResult is returned and no record is saved.
C21_NavigationFailureIsFatal ==
    \A a \in Audits :
        /\ audit[a].navigation = "failed"
              => /\ audit[a].pc = "finallyThrown"
                 /\ audit[a].desktop = "none"
                 /\ a \notin DOMAIN audits
        /\ audit[a].pc = "failed" => a \notin DOMAIN audits

\* a navigation has failed and only the finally block is left to run, while
\* another audit has been saved
C21_Witness ==
    \E a, b \in Audits :
        /\ audit[a].navigation = "failed"
        /\ audit[a].pc = "finallyThrown"
        /\ a \in DOMAIN contexts
        /\ b \in DOMAIN audits

(***************************************************************************)
(* Extraction with fallible lookups: one lookup of the page rejects, and   *)
(* the analyzers either catch the rejection or let it through.             *)
(***************************************************************************)
\* the lookups of the analyzers that read the modelled fields, by the field
\* they fill
CaughtLookups ==
    {"metaDescription", "viewport", "canonical", "ogTitle", "headings",
     "images", "links"}

FieldLookups == CaughtLookups \cup {"title", "hasViewport", "wordCount"}

Lookups == FieldLookups \cup {"navigationTiming", "metrics"}

\* an analyzer that rejected
Thrown == [thrown |-> TRUE]

\* lookup.catch(() => fallback)
catch(p, lookup, fallback, value) == IF p.rejects = lookup THEN fallback ELSE value

\* the page as its caught lookups resolve
resolved(p) ==
    [p EXCEPT !.metaDescription  = catch(p, "metaDescription", Null, @),
              !.viewportContent  = catch(p, "viewport", Null, @),
              !.canonical        = catch(p, "canonical", Null, @),
              !.ogTitle          = catch(p, "ogTitle", Null, @),
              !.h1               = catch(p, "headings", <<>>, @),
              !.imagesWithoutAlt = catch(p, "images", 0, @),
              !.emptyLinks       = catch(p, "links", 0, @)]

\* await page.title() has no catch
analyzeSEOLookups(p) ==
    IF p.rejects = "title" THEN Thrown ELSE analyzeSEO(resolved(p))

\* neither page.evaluate nor page.$(...).then has a catch
analyzeTechnicalLookups(p) ==
    IF p.rejects \in {"navigationTiming", "hasViewport"} THEN Thrown
    ELSE analyzeTechnical(resolved(p))

\* the page.evaluate of the word count has no catch
analyzeContentLookups(p) ==
    IF p.rejects = "wordCount" THEN Thrown ELSE analyzeContent(resolved(p))

analyzePerformanceLookups(p) ==
    IF p.rejects = "metrics" THEN Thrown ELSE analyzePerformance(resolved(p))

\* the position after an analyzer: on, or out of the try block
afterAnalyzer(bundle, at) == IF bundle = Thrown THEN "thrown" ELSE at

ExtractSEO ==
    /\ pc = "navigated"
    /\ seo' = analyzeSEOLookups(page)
    /\ pc' = afterAnalyzer(seo', "seo")
    /\ UNCHANGED serviceVars
    /\ UNCHANGED <<page, technical, content, performance, issues,
                   recommendations, categories, overallScore, llmAnalysis>>

ExtractTechnical ==
    /\ pc = "seo"
    /\ technical' = analyzeTechnicalLookups(page)
    /\ pc' = afterAnalyzer(technical', "technical")
    /\ UNCHANGED serviceVars
    /\ UNCHANGED <<page, seo, content, performance, issues,
                   recommendations, categories, overallScore, llmAnalysis>>

ExtractContent ==
    /\ pc = "technical"
    /\ content' = analyzeContentLookups(page)
    /\ pc' = afterAnalyzer(content', "content")
    /\ UNCHANGED serviceVars
    /\ UNCHANGED <<page, seo, technical, performance, issues,
                   recommendations, categories, overallScore, llmAnalysis>>

ExtractPerformance ==
    /\ pc = "content"
    /\ performance' = analyzePerformanceLookups(page)
    /\ pc' = afterAnalyzer(performance', "performance")
    /\ UNCHANGED serviceVars
    /\ UNCHANGED <<page, seo, technical, content, issues,
                   recommendations, categories, overallScore, llmAnalysis>>

ExtractPages ==
    [title              : {45},
     metaDescription    : {Null, Str(140)},
     hasViewportElement : BOOLEAN,
     viewportContent    : {Null, Str(35)},
     canonical          : {Null, Str(27)},
     ogTitle            : {Null, Str(12)},
     h1                 : {Headings(n) : n \in 0..MaxH1},
     imagesWithoutAlt   : 0..MaxImages,
     emptyLinks         : 0..MaxLinks,
     url                : {"http", "https"},
     loadTime           : {2 * 800},
     wordCount          : {250},
     rejects            : Lookups \cup {"none"}]

InitExtract ==
    /\ pc = "navigated"
    /\ page \in {p \in ExtractPages : ~p.hasViewportElement => p.viewportContent = Null}
    /\ seo = Pending /\ technical = Pending
    /\ content = Pending /\ performance = Pending
    /\ issues = <<>>
    /\ recommendations = <<>>
    /\ categories = Pending
    /\ overallScore = 0
    /\ llmAnalysis = Pending
    /\ ServiceIdle

NextExtract ==
    \/ ExtractSEO
    \/ ExtractTechnical
    \/ ExtractContent
    \/ ExtractPerformance
    \/ AnalyzeIssuesAndRecommendations
    \/ CalculateCategoryScores
    \/ CalculateOverallScore

SpecExtract == InitExtract /\ [][NextExtract]_vars

\* C22: the failure of one per-field lookup never aborts the audit: the
\* extraction goes on and a full AuditResult is produced.
C22_LookupFailureTolerated ==
    page.rejects \in FieldLookups => pc # "thrown"

\* the same for the lookups that carry a catch, with the default their field
\* takes
C22_CaughtLookupDefaults ==
    page.rejects \in CaughtLookups =>
        /\ pc # "thrown"
        /\ pc \in {"seo", "technical", "content", "performance", "derived",
                    "scored", "done"} =>
              /\ page.rejects = "metaDescription" => seo.metaDescription.content = Null
              /\ page.rejects = "viewport" => seo.viewport = Null
              /\ page.rejects = "canonical" => seo.canonical = Null
              /\ page.rejects = "ogTitle" => seo.openGraph.title = Null
              /\ page.rejects = "headings" => seo.headingStructure.h1 = <<>>
        /\ pc \in {"content", "performance", "derived", "scored", "done"} =>
              /\ page.rejects = "images" => content.images.withoutAlt = 0
              /\ page.rejects = "links" => content.links.empty = 0

(***************************************************************************)
(* InMemoryAuditStorage.  In this part audits is the Map as JavaScript     *)
(* keeps it, a sequence of entries in insertion order, and audit is what   *)
(* the callers have seen: the saveAudit and deleteAudit calls made so far  *)
(* with what they returned, and then one getAudit or listAudits call,      *)
(* which changes nothing and is followed no further.                       *)
(* A string is a sequence of characters, a time a count of milliseconds.   *)
(***************************************************************************)
\* Map.prototype.has, get, set and delete
mapHas(map, key) == \E i \in DOMAIN map : map[i].key = key

mapGetFirst(map, key) == map[1].value

mapGet(map, key) == map[CHOOSE i \in DOMAIN map : map[i].key = key].value

mapSet(map, key, value) ==
    IF mapHas(map, key)
    THEN [i \in DOMAIN map |->
             IF map[i].key = key THEN [key |-> key, value |-> value] ELSE map[i]]
    ELSE Append(map, [key |-> key, value |-> value])

mapClear(map, key) == <<>>

mapDelete(map, key) == SelectSeq(map, LAMBDA entry : entry.key # key)

\* Array.from(map.values())
mapValues(map) == [i \in DOMAIN map |-> map[i].value]

\* `audit_${Date.now()}_${random}`
generateId(now, random) == <<"audit", now, random>>

saveAudit(map, auditResult, now, random) ==
    LET id == generateId(now, random)
        auditWithMetadata ==
            [id |-> id, createdAt |-> now, status |-> "completed"] @@ auditResult
    IN  [audits |-> mapSet(map, id, auditWithMetadata), returned |-> id]

getAudit(map, id) == IF mapHas(map, id) THEN mapGet(map, id) ELSE Null

deleteAudit(map, id) ==
    [audits |-> mapDelete(map, id), returned |-> mapHas(map, id)]

toLowerCase(str) == [i \in DOMAIN str |-> IF str[i] = "A" THEN "a"
                                          ELSE IF str[i] = "B" THEN "b"
                                          ELSE str[i]]

includes(str, sub) ==
    \E i \in 1 .. Len(str) - Len(sub) + 1 :
        SubSeq(str, i, i + Len(sub) - 1) = sub

\* filters?.name is truthy: there, and not the falsy value of its type
supplied(filters, name, falsy) ==
    /\ name \in DOMAIN filters
    /\ filters[name] # falsy

\* the empty string where a time is expected
NoDate == 0 - 1

userIdOf(record) == IF "userId" \in DOMAIN record THEN record.userId ELSE Null

filterAudits(list, filters) ==
    LET byUrl(a) == supplied(filters, "url", <<>>) =>
                        includes(toLowerCase(a.url), toLowerCase(filters.url))
        byScore(a) == supplied(filters, "minScore", 0) =>
                        a.overallScore >= filters.minScore
        byUser(a) == supplied(filters, "userId", "") => userIdOf(a) = filters.userId
        byFrom(a) == supplied(filters, "dateFrom", NoDate) => a.createdAt >= filters.dateFrom
        byTo(a) == supplied(filters, "dateTo", NoDate) => a.createdAt <= filters.dateTo
    IN  SelectSeq(list, LAMBDA a : byUrl(a) /\ byScore(a) /\ byUser(a)
                                   /\ byFrom(a) /\ byTo(a))

\* a record put into a list sorted by (b, a) => b.createdAt - a.createdAt,
\* behind the records the comparator does not order after it
RECURSIVE insertSorted(_, _)
insertSorted(list, record) ==
    IF list = <<>> THEN <<record>>
    ELSE IF Head(list).createdAt >= record.createdAt
         THEN <<Head(list)>> \o insertSorted(Tail(list), record)
         ELSE <<record>> \o list

\* Array.prototype.sort, which is stable
RECURSIVE sortByCreatedAt(_)
sortByCreatedAt(list) ==
    IF list = <<>> THEN <<>>
    ELSE insertSorted(sortByCreatedAt(SubSeq(list, 1, Len(list) - 1)),
                      list[Len(list)])

summary(a) ==
    [id        |-> a.id,
     url       |-> a.url,
     score     |-> a.overallScore,
     createdAt |-> a.createdAt,
     status    |-> a.status]

listAudits(map, filters) ==
    LET sorted == sortByCreatedAt(filterAudits(mapValues(map), filters))
    IN  [i \in DOMAIN sorted |-> summary(sorted[i])]

\* the AuditResults handed to saveAudit
SavedResults ==
    {[url |-> <<"a", "b">>, overallScore |-> 40],
     [url |-> <<"A">>, overallScore |-> 80, userId |-> "u1"],
     [url |-> <<"b">>, overallScore |-> 80]}

Randoms == {"x", "y"}

\* the filters handed to listAudits; an absent key is a filter not supplied
OptionalFilter(name, values) == {<<>>} \cup {name :> v : v \in values}

Filters ==
    {u @@ m @@ w @@ f @@ t :
        u \in OptionalFilter("url", {<<"B">>}),
        m \in OptionalFilter("minScore", {0, 50}),
        w \in OptionalFilter("userId", {"u1"}),
        f \in OptionalFilter("dateFrom", {1}),
        t \in OptionalFilter("dateTo", {0})}

\* Date.now() does not go back: the time of the last save, or later
Saves == SelectSeq(audit.calls, LAMBDA call : call.op = "saveAudit")

lastNow == IF Saves = <<>> THEN 0 ELSE Saves[Len(Saves)].now

\* the identifiers the callers hold, and one that was never returned
KnownIds ==
    {Saves[i].returned : i \in DOMAIN Saves} \cup {generateId(0, "never")}

storageUnchanged ==
    UNCHANGED <<pc, page, seo, technical, content, performance, issues,
                recommendations, categories, overallScore, llmAnalysis, llm,
                browserInstance, browsers, contexts, pages>>

StorageSaveAudit ==
    /\ audit.query = Null
    /\ Len(audit.calls) < MaxCalls
    /\ \E auditResult \in SavedResults, now \in {lastNow, lastNow + 1},
          random \in Randoms :
          LET saved == saveAudit(audits, auditResult, now, random)
          IN  /\ audits' = saved.audits
              /\ audit' = [calls |-> Append(audit.calls,
                                            [op       |-> "saveAudit",
                                             audit    |-> auditResult,
                                             now      |-> now,
                                             returned |-> saved.returned]),
                           query |-> Null]
    /\ storageUnchanged

StorageDeleteAudit ==
    /\ audit.query = Null
    /\ Len(audit.calls) < MaxCalls
    /\ \E id \in KnownIds :
          LET deleted == deleteAudit(audits, id)
          IN  /\ audits' = deleted.audits
              /\ audit' = [calls |-> Append(audit.calls,
                                            [op       |-> "deleteAudit",
                                             id       |-> id,
                                             returned |-> deleted.returned]),
                           query |-> Null]
    /\ storageUnchanged

StorageGetAudit ==
    /\ audit.query = Null
    /\ \E id \in KnownIds :
          audit' = [audit EXCEPT !.query = [op       |-> "getAudit",
                                            id       |-> id,
                                            returned |-> getAudit(audits, id)]]
    /\ UNCHANGED audits
    /\ storageUnchanged

StorageListAudits ==
    /\ audit.query = Null
    /\ \E filters \in Filters :
          audit' = [audit EXCEPT !.query = [op       |-> "listAudits",
                                            filters  |-> filters,
                                            returned |-> listAudits(audits, filters)]]
    /\ UNCHANGED audits
    /\ storageUnchanged

InitStorage ==
    /\ pc = "serving"
    /\ page = Pending
    /\ seo = Pending /\ technical = Pending
    /\ content = Pending /\ performance = Pending
    /\ issues = <<>>
    /\ recommendations = <<>>
    /\ categories = Pending
    /\ overallScore = 0
    /\ llmAnalysis = Pending
    /\ llm = Pending
    /\ browserInstance = 0
    /\ browsers = <<>>
    /\ contexts = <<>>
    /\ pages = <<>>
    /\ audit = [calls |-> <<>>, query |-> Null]
    /\ audits = <<>>

NextStorage ==
    \/ StorageSaveAudit
    \/ StorageDeleteAudit
    \/ StorageGetAudit
    \/ StorageListAudits

SpecStorage == InitStorage /\ [][NextStorage]_vars

Calls == audit.calls

\* the save call at position i has not been followed by a save that returned
\* the same identifier or by a delete of it
Undisturbed(i) ==
    \A j \in DOMAIN Calls :
        j > i =>
            /\ Calls[j].op = "saveAudit" => Calls[j].returned # Calls[i].returned
            /\ Calls[j].op = "deleteAudit" => Calls[j].id # Calls[i].returned

savedAt(id) ==
    CHOOSE i \in DOMAIN Calls :
        /\ Calls[i].op = "saveAudit" /\ Calls[i].returned = id
        /\ \A j \in DOMAIN Calls :
              (Calls[j].op = "saveAudit" /\ Calls[j].returned = id) => j <= i

\* a stored record passes every filter that was supplied
PassesEvery(record, filters) ==
    /\ "url" \in DOMAIN filters =>
          includes(toLowerCase(record.url), toLowerCase(filters.url))
    /\ "minScore" \in DOMAIN filters => record.overallScore >= filters.minScore
    /\ "userId" \in DOMAIN filters =>
          ("userId" \in DOMAIN record /\ record.userId = filters.userId)
    /\ "dateFrom" \in DOMAIN filters => record.createdAt >= filters.dateFrom
    /\ "dateTo" \in DOMAIN filters => record.createdAt <= filters.dateTo

Listed == audit.query # Null /\ audit.query.op = "listAudits"

\* the result holds the summaries of exactly the stored records that pass
ListsExactlyThePassing ==
    LET result == audit.query.returned
    IN  /\ \A i, j \in DOMAIN result : i # j => result[i].id # result[j].id
        /\ {result[i] : i \in DOMAIN result}
              = {[id        |-> audits[k].value.id,
                  url       |-> audits[k].value.url,
                  score     |-> audits[k].value.overallScore,
                  createdAt |-> audits[k].value.createdAt,
                  status    |-> "completed"] :
                 k \in {n \in DOMAIN audits :
                            PassesEvery(audits[n].value, audit.query.filters)}}

\* C24: listAudits returns the summaries of exactly the stored records that
\* pass every supplied filter, and a record saved later never comes after a
\* record saved earlier, records saved in the same millisecond included.
C24_ListedByRecency ==
    Listed =>
        /\ ListsExactlyThePassing
        /\ \A i, j \in DOMAIN audit.query.returned :
              i < j => savedAt(audit.query.returned[i].id)
                          > savedAt(audit.query.returned[j].id)

\* the same with the order the code gives: createdAt never increases
C24_ListedByCreatedAt ==
    Listed =>
        /\ ListsExactlyThePassing
        /\ \A i, j \in DOMAIN audit.query.returned :
              i < j => audit.query.returned[i].createdAt
                          >= audit.query.returned[j].createdAt

DeleteStep ==
    /\ Len(audit'.calls) = Len(audit.calls) + 1
    /\ audit'.calls[Len(audit'.calls)].op = "deleteAudit"

\* C25: deleteAudit(id) returns true exactly when id was stored; afterwards
\* getAudit(id) is absent, listAudits does not hold id, and every other
\* record is as it was.
C25_DeleteAudit ==
    [][DeleteStep =>
          LET call == audit'.calls[Len(audit'.calls)]
          IN  /\ call.returned = mapHas(audits, call.id)
              /\ getAudit(audits', call.id) = Null
              /\ \A i \in DOMAIN listAudits(audits', <<>>) :
                    listAudits(audits', <<>>)[i].id # call.id
              /\ \A i \in DOMAIN audits :
                    audits[i].key # call.id =>
                        getAudit(audits', audits[i].key) = audits[i].value
              /\ \A i \in DOMAIN audits' : mapHas(audits, audits'[i].key)]_vars

\* one delete found its record and returned true while another record stays
\* stored, and one delete found nothing and returned false
C25_Witness ==
    /\ Len(Calls) = MaxCalls
    /\ Calls[1].op = "saveAudit"
    /\ Calls[2].op = "saveAudit"
    /\ Calls[3].op = "deleteAudit"
    /\ Calls[3].id = Calls[2].returned
    /\ Calls[3].returned
    /\ Len(audits) = 1
    /\ audits[1].key = Calls[1].returned
    /\ audit.query # Null
    /\ audit.query.op = "getAudit"
    /\ audit.query.id = Calls[3].id
    /\ audit.query.returned = Null

\* the issues of one category, in their order in the list
OfCategory(list, c) == SelectSeq(list, LAMBDA issue : issue.category = c)

\* the categories once the first k issues have been processed
AfterPrefix(k) == calculateCategoryScores(SubSeq(issues, 1, k))

\* C26: in calculateCategoryScores, after any prefix of the issue list every
\* score is in 0..100 and every CategoryScore holds exactly the issues of its
\* category in their original order; processing an issue leaves the three
\* other categories as they were and never increases the score of its own.
C26_ScoresPerPrefix ==
    pc = "scored" =>
        /\ categories = AfterPrefix(Len(issues))
        /\ \A k \in 0 .. Len(issues) :
              /\ \A c \in Categories :
                    /\ AfterPrefix(k)[c].score \in 0 .. 100
                    /\ AfterPrefix(k)[c].issues
                          = OfCategory(SubSeq(issues, 1, k), c)
              /\ k < Len(issues) =>
                    \A c \in Categories :
                        IF c = issues[k + 1].category
                        THEN AfterPrefix(k + 1)[c].score <= AfterPrefix(k)[c].score
                        ELSE AfterPrefix(k + 1)[c] = AfterPrefix(k)[c]

\* a category has received as many high-impact issues as the list holds, more
\* than its hundred points pay for, and stands at 0
C26_Witness ==
    /\ pc = "scored"
    /\ \E c \in Categories :
          /\ categories[c].score = 0
          /\ Len(categories[c].issues) = MaxIssues
          /\ \A i \in DOMAIN categories[c].issues :
                categories[c].issues[i].impact = "high"

(***************************************************************************)
(* The steps of one runPlaywrightAudit call, each with its start and its   *)
(* completion.  audit holds the position of the call and the log of these  *)
(* events with the viewport the page had at each of them.                  *)
(***************************************************************************)
\* the awaited calls of the try block and of captureScreenshots, in the
\* order of the statements
StepsResizeFirst ==
    <<"goto", "waitForSelector", "analyzeSEO", "analyzeTechnical",
      "analyzeContent", "analyzePerformance", "setViewportSize",
      "screenshotDesktop", "screenshotMobile">>

Steps ==
    <<"goto", "waitForSelector", "analyzeSEO", "analyzeTechnical",
      "analyzeContent", "analyzePerformance", "screenshotDesktop",
      "setViewportSize", "screenshotMobile">>

\* captureScreenshots is called unless options.includeScreenshots is false
stepsOf(options) ==
    IF options.includeScreenshots THEN Steps
    ELSE SelectSeq(Steps, LAMBDA step :
                      step \notin {"screenshotDesktop", "setViewportSize",
                                   "screenshotMobile"})

event(step, what) ==
    [step |-> step, event |-> what, viewport |-> pages[1].viewport]

stepsUnchanged ==
    UNCHANGED <<page, issues, recommendations, categories, overallScore,
                llmAnalysis, llm, browserInstance, browsers, contexts, audits>>

\* the call of an awaited function
StepStarts ==
    /\ pc = "running"
    /\ audit.running = "none"
    /\ audit.next <= Len(stepsOf(audit.options))
    /\ LET step == stepsOf(audit.options)[audit.next]
       IN  audit' = [audit EXCEPT !.running = step,
                                  !.log = Append(@, event(step, "start"))]
    /\ UNCHANGED <<pc, pages, seo, technical, content, performance>>
    /\ stepsUnchanged

\* its promise resolves and the statement after the await is reached
StepCompletes ==
    /\ pc = "running"
    /\ audit.running # "none"
    /\ LET step == audit.running
       IN  /\ audit' = [audit EXCEPT !.running = "none",
                                      !.next = @ + 1,
                                      !.log = Append(@, event(step, "end"))]
           /\ seo' = IF step = "analyzeSEO" THEN analyzeSEO(page) ELSE seo
           /\ technical' = IF step = "analyzeTechnical"
                            THEN analyzeTechnical(page) ELSE technical
           /\ content' = IF step = "analyzeContent"
                          THEN analyzeContent(page) ELSE content
           /\ performance' = IF step = "analyzePerformance"
                              THEN analyzePerformance(page) ELSE performance
           /\ pages' = IF step = "setViewportSize"
                        THEN [pages EXCEPT ![1].viewport = "mobile"] ELSE pages
    /\ UNCHANGED pc
    /\ stepsUnchanged

\* the last awaited call is done: issues, scores and the return follow
StepsDone ==
    /\ pc = "running"
    /\ audit.running = "none"
    /\ audit.next > Len(stepsOf(audit.options))
    /\ pc' = "performance"
    /\ UNCHANGED <<audit, pages, seo, technical, content, performance>>
    /\ stepsUnchanged

InitSteps ==
    /\ pc = "running"
    /\ page \in LLMPages
    /\ seo = Pending /\ technical = Pending
    /\ content = Pending /\ performance = Pending
    /\ issues = <<>>
    /\ recommendations = <<>>
    /\ categories = Pending
    /\ overallScore = 0
    /\ llmAnalysis = Pending
    /\ llm = Pending
    /\ browserInstance = 1
    /\ browsers = <<"chromium">>
    /\ contexts = <<[browser |-> 1]>>
    /\ pages = <<[context |-> 1, viewport |-> "desktop", listeners |-> {}]>>
    /\ audit \in [options : [includeScreenshots : BOOLEAN],
                   next    : {1},
                   running : {"none"},
                   log     : {<<>>}]
    /\ audits = <<>>

NextSteps ==
    \/ StepStarts
    \/ StepCompletes
    \/ StepsDone

SpecSteps == InitSteps /\ [][NextSteps]_vars

ClaimedOrder ==
    <<"navigation", "seo", "technical", "content", "performance", "screenshots">>

\* the step of the claim an awaited call belongs to
StepOfClaim(step) ==
    CASE step \in {"goto", "waitForSelector"} -> "navigation"
      [] step = "analyzeSEO" -> "seo"
      [] step = "analyzeTechnical" -> "technical"
      [] step = "analyzeContent" -> "content"
      [] step = "analyzePerformance" -> "performance"
      [] OTHER -> "screenshots"

RankOfClaim(step) ==
    CHOOSE i \in DOMAIN ClaimedOrder : ClaimedOrder[i] = StepOfClaim(step)

\* C27: within one audit the steps run in the order navigation, SEO,
\* technical, content, performance, screenshots, each starting only after
\* the one before has completed, and the viewport becomes mobile only after
\* the desktop screenshot: no extraction and no desktop screenshot sees it.
C27_StepsInOrder ==
    LET log == audit.log
    IN  /\ \A i \in DOMAIN log :
              /\ log[i].event = (IF i % 2 = 1 THEN "start" ELSE "end")
              /\ i % 2 = 0 => log[i].step = log[i - 1].step
        /\ \A i, j \in DOMAIN log :
              i < j => RankOfClaim(log[i].step) <= RankOfClaim(log[j].step)
        /\ \A i \in DOMAIN log :
              log[i].step \in {"analyzeSEO", "analyzeTechnical", "analyzeContent",
                               "analyzePerformance", "screenshotDesktop"}
                  => log[i].viewport = "desktop"
        /\ \A i \in DOMAIN log :
              (log[i].step = "setViewportSize" /\ log[i].event = "start")
                  => \E j \in DOMAIN log :
                        /\ j < i
                        /\ log[j].step = "screenshotDesktop"
                        /\ log[j].event = "end"
        /\ seo # Pending =>
              \E i \in DOMAIN log : log[i].step = "waitForSelector" /\ log[i].event = "end"

\* an audit with screenshots has run all its steps: the page is at the
\* mobile viewport and the mobile screenshot was taken in it
C27_Witness ==
    /\ pc = "performance"
    /\ audit.options.includeScreenshots
    /\ pages[1].viewport = "mobile"
    /\ audit.log[Len(audit.log)] =
          [step |-> "screenshotMobile", event |-> "end", viewport |-> "mobile"]
    /\ performance # Pending

(***************************************************************************)
(* closeBrowser among the audits.  The audits are followed up to the       *)
(* return of getBrowser; pc is the position of the closeBrowser call, and  *)
(* an entry of browsers is "chromium" while it runs, then "closing", then  *)
(* "closed".                                                               *)
(***************************************************************************)
closeUnchanged ==
    UNCHANGED <<page, seo, technical, content, performance, issues,
                recommendations, categories, overallScore, llmAnalysis, llm,
                contexts, pages, audit, audits>>

\* closeBrowser up to its await
CloseBrowser ==
    /\ pc = "serving"
    /\ browserInstance # 0
    /\ browsers' = [browsers EXCEPT ![browserInstance] = "closing"]
    /\ pc' = "closing"
    /\ UNCHANGED browserInstance
    /\ closeUnchanged

\* browserInstance.close() resolves, then browserInstance = null
CloseBrowserResolves ==
    /\ pc = "closing"
    /\ browsers' = [b \in DOMAIN browsers |->
                       IF browsers[b] = "closing" THEN "closed" ELSE browsers[b]]
    /\ browserInstance' = 0
    /\ pc' = "serving"
    /\ closeUnchanged

NextClose ==
    \/ CloseBrowser
    \/ CloseBrowserResolves
    \/ \E a \in Audits :
          \/ RunAudit(a)
          \/ GetBrowser(a)
          \/ LaunchResolves(a)
          \/ LaunchRejects(a)

SpecClose == InitRun /\ [][NextClose]_vars

\* C28: whatever the interleaving of closeBrowser with the audits, getBrowser
\* never returns a browser that is closed or being closed.
C28_NeverHandedClosingBrowser ==
    \A a \in Audits : audit[a].handed \in {"none", "chromium"}

\* the same for closed browsers alone: once closeBrowser has completed the
\* handle is null and the next getBrowser launches
C28_NeverHandedClosedBrowser ==
    /\ \A a \in Audits : audit[a].handed # "closed"
    /\ browserInstance # 0 => browsers[browserInstance] # "closed"

====
